---- MODULE Spec2Model ----
(***************************************************************************)
(* Authentication and token lifecycle of the blog backend:                 *)
(*   middlewares/auth.py   jwt_middleware                                  *)
(*   services/auth.py      password hashing, token issue and decode        *)
(*   apps/auth/routes.py   /auth/register, /auth/login, /auth/refresh      *)
(*   apps/api_v1/users.py, apps/api_v1/user.py, services/user_service.py   *)
(*                         the user operations that follow a login         *)
(*   core/pagination.py    PaginationParams, paginate_queryset             *)
(*   apps/api_v1/posts.py, apps/api_v1/tags.py, services/tag_service.py    *)
(*                         the post and tag handlers, the list endpoints   *)
(*                                                                         *)
(* Conventions.  A value that may be missing (a dict key, a JSON field,    *)
(* None) is a set with at most one element: {} is "missing", {v} is v.     *)
(* The clock is an integer number of abstract time units; both token       *)
(* lifetimes are scaled to that unit and keep their order (access <        *)
(* refresh).  One handler runs as one step: the server awaits nothing      *)
(* between the reads and writes modelled here except where a claim is      *)
(* about an interleaving.                                                  *)
(***************************************************************************)
EXTENDS Integers, Sequences, FiniteSets, TLC

\* ---- bounds ------------------------------------------------------------
MaxTime == 3     \* the clock runs from 0 to MaxTime
MaxUsers == 2    \* primary keys 1 .. MaxUsers are assigned, then no more rows
MaxItems == 25   \* a paginated source has 0 .. MaxItems items
MaxPage == 4     \* pages 1 .. MaxPage are requested
MaxTtl == 2    \* set is called with a ttl of 0 .. MaxTtl time units, or none
MaxCallbacks == 2  \* an event type has 0 .. MaxCallbacks subscribers
MaxPageSize == 10  \* page sizes 1 .. MaxPageSize are requested, and the limit

\* ---- state -------------------------------------------------------------
VARIABLES
    now,      \* the clock
    users,    \* the users table: a set of rows
    nextId,   \* the next primary key the table assigns
    posts,    \* the posts table: a set of rows
    tags,     \* the tags table: a set of rows
    held,     \* the token a client received from the server and kept, if any
    req,      \* the last request (or service call) and its inputs
    ctx,      \* request.ctx.user as the middleware left it for that request
    raised,   \* whether that request ended in an unhandled exception
    resp,     \* the response it was answered with
    published,    \* the events handed to the event bus while it was handled
    subscribers,  \* EventBus._subscribers: the callbacks of each event type
    cache,    \* InMemoryCacheBackend._cache: the entry of each key, if any
    lastSet,  \* per key, the last set call not yet followed by a delete or clear of it
    tasks     \* the requests being handled concurrently, each with its own position

vars == <<now, users, nextId, posts, tags, held, req, ctx, raised, resp,
          published, subscribers, cache, lastSet, tasks>>

\* ---- config.py ---------------------------------------------------------
JWT_SECRET == "your-secret-key"
JWT_ALGORITHM == "HS256"
JWT_ACCESS_TOKEN_EXPIRES == 1
JWT_REFRESH_TOKEN_EXPIRES == 2

\* ---- middlewares/auth.py -----------------------------------------------
PUBLIC_PATHS == {"/", "/auth/login", "/auth/register", "/auth/refresh"}

\* paths a request may carry: the public ones and one routed elsewhere
Paths == PUBLIC_PATHS \cup {"/api/v1/posts"}

Opt(S) == {{}} \cup {{x} : x \in S}

\* ---- Python conversions -----------------------------------------------
\* str(n) for the user ids of the model
str(n) == CASE n = 0 -> "0" [] n = 1 -> "1" [] n = 2 -> "2" [] n = 3 -> "3"
            [] OTHER -> "n"

\* the strings int() accepts, and the others (ValueError)
NumericStrings == {"0", "1", "2", "3", "01", "02"}

\* int(s) for s in NumericStrings: leading zeros are accepted and dropped
int(s) == CASE s = "0" -> 0
            [] s \in {"1", "01"} -> 1
            [] s \in {"2", "02"} -> 2
            [] s = "3" -> 3
            [] OTHER -> 0

\* ---- tokens ------------------------------------------------------------
\* A token string is a compact JWT (header algorithm, the key that signed
\* it, and the payload's claims), the empty string, or any other string.
SubStrings == {"1", "2", "02", "x"}
ExpInstants == 0 .. (MaxTime + JWT_REFRESH_TOKEN_EXPIRES)

NotAJwt(form) == [form |-> form, alg |-> "", key |-> "",
                  sub |-> {}, exp |-> {}, refresh |-> {}]
EmptyString == NotAJwt("empty")
Garbage == NotAJwt("garbage")

Jwts == [form : {"jwt"}, alg : {JWT_ALGORITHM, "none"},
         key : {JWT_SECRET, "other-key"},
         sub : Opt(SubStrings), exp : Opt(ExpInstants), refresh : Opt(BOOLEAN)]

TokenStrings == Jwts \cup {EmptyString, Garbage}

\* jwt.encode(to_encode, JWT_SECRET, algorithm=JWT_ALGORITHM)
jwt_encode(payload) ==
    [form |-> "jwt", alg |-> JWT_ALGORITHM, key |-> JWT_SECRET,
     sub |-> payload.sub, exp |-> payload.exp, refresh |-> payload.refresh]

\* jwt.decode(token, JWT_SECRET, algorithms=[JWT_ALGORITHM]) with the
\* library's default options: structure, algorithm and signature are
\* verified, and an `exp` claim, when present, must be later than the
\* clock (ExpiredSignatureError otherwise).  Every failure is a PyJWTError.
\* The clock is read once per request: a request is handled within one
\* time unit.
jwt_decode(token, t) ==
    IF token.form # "jwt" THEN [ok |-> FALSE, payload |-> {}]
    ELSE IF token.alg # JWT_ALGORITHM THEN [ok |-> FALSE, payload |-> {}]
    ELSE IF token.key # JWT_SECRET THEN [ok |-> FALSE, payload |-> {}]
    ELSE IF \E e \in token.exp : e <= t THEN [ok |-> FALSE, payload |-> {}]
    ELSE [ok |-> TRUE,
          payload |-> {[sub |-> token.sub, exp |-> token.exp,
                        refresh |-> token.refresh]}]

\* ---- request headers ---------------------------------------------------
\* The Authorization header is absent, or the string made of `parts`
\* followed by the token string.
Schemes == {<<>>, <<"Bearer ">>, <<"Basic ">>, <<"Bearer ", "Bearer ">>}
NoHeader == [present |-> FALSE, parts |-> <<>>, token |-> EmptyString]
Headers == {NoHeader} \cup [present : {TRUE}, parts : Schemes, token : TokenStrings]
Bearer(token) == [present |-> TRUE, parts |-> <<"Bearer ">>, token |-> token]

\* `not auth_header`: None or ""
HeaderFalsy(h) == ~h.present \/ (h.parts = <<>> /\ h.token.form = "empty")

\* auth_header.startswith('Bearer ')
StartsWithBearer(h) == h.present /\ h.parts # <<>> /\ h.parts[1] = "Bearer "

\* auth_header.replace('Bearer ', ''): every occurrence is removed; what is
\* left is the token string when all parts were 'Bearer ', and some other
\* string otherwise
StripBearer(h) ==
    IF \A i \in 1 .. Len(h.parts) : h.parts[i] = "Bearer " THEN h.token
    ELSE Garbage

\* ---- request context ---------------------------------------------------
\* request.ctx.user: the attribute may never have been assigned
CtxUnset == [assigned |-> FALSE, user |-> {}]
CtxUser(u) == [assigned |-> TRUE, user |-> u]

\* jwt_middleware as it would be if it looked the subject up and resolved
\* only users that still exist
jwt_middleware_checks_user(path, h, t) ==
    IF path \in PUBLIC_PATHS THEN [raised |-> FALSE, ctx |-> CtxUnset]
    ELSE IF HeaderFalsy(h) \/ ~StartsWithBearer(h)
    THEN [raised |-> FALSE, ctx |-> CtxUser({})]
    ELSE LET d == jwt_decode(StripBearer(h), t) IN
         IF ~d.ok THEN [raised |-> FALSE, ctx |-> CtxUser({})]
         ELSE LET payload == CHOOSE p \in d.payload : TRUE IN
              IF payload.exp = {} \/ payload.exp = {0}
                 \/ (\E e \in payload.exp : t > e)
              THEN [raised |-> FALSE, ctx |-> CtxUser({})]
              ELSE IF \E s \in payload.sub : s \in NumericStrings
              THEN [raised |-> FALSE,
                    ctx |-> CtxUser({int(s) : s \in payload.sub}
                                    \cap {u.id : u \in users})]
              ELSE [raised |-> TRUE, ctx |-> CtxUnset]

\* jwt_middleware: the context it leaves and whether it raised
jwt_middleware(path, h, t) ==
    IF path \in PUBLIC_PATHS THEN [raised |-> FALSE, ctx |-> CtxUnset]
    ELSE IF HeaderFalsy(h) \/ ~StartsWithBearer(h)
    THEN [raised |-> FALSE, ctx |-> CtxUser({})]
    ELSE LET d == jwt_decode(StripBearer(h), t) IN
         IF ~d.ok THEN [raised |-> FALSE, ctx |-> CtxUser({})]
         ELSE LET payload == CHOOSE p \in d.payload : TRUE IN
              IF payload.exp = {} \/ payload.exp = {0}
                 \/ (\E e \in payload.exp : t > e)
              THEN [raised |-> FALSE, ctx |-> CtxUser({})]
              ELSE IF \E s \in payload.sub : s \in NumericStrings
              THEN [raised |-> FALSE,
                    ctx |-> CtxUser({int(s) : s \in payload.sub})]
              ELSE [raised |-> TRUE, ctx |-> CtxUnset]


\* ---- services/auth.py --------------------------------------------------
Passwords == {"pw1", "pw2"}
Salts == {"s1"}     \* the salts enumerated

\* pwd_context.hash: a bcrypt digest carries its scheme and a fresh salt;
\* the digest proper is a one-way image of (salt, password), modelled as
\* the pair itself and never compared with a plaintext
get_password_hash(password, salt) ==
    [scheme |-> "bcrypt", salt |-> salt, digest |-> <<salt, password>>]

\* verify_password as it would be if it accepted any password for a bcrypt hash
verify_password_scheme_only(plain_password, hashed_password) ==
    hashed_password.scheme = "bcrypt"

\* pwd_context.verify: recompute with the salt stored in the hash
verify_password(plain_password, hashed_password) ==
    /\ hashed_password.scheme = "bcrypt"
    /\ hashed_password.digest = <<hashed_password.salt, plain_password>>

\* User.get_or_none(username=username) / User.filter(username=..).first()
\* over the users table U: the row, or nothing
ByUsername(U, username) == {u \in U : u.username = username}
ByEmail(U, email) == {u \in U : u.email = email}
ById(U, id) == {u \in U : u.id = id}

\* authenticate_user as it would be without the password check
authenticate_user_any_password(U, username, password) == ByUsername(U, username)

\* authenticate_user: the user row, or {} for False
authenticate_user(U, username, password) ==
    {u \in ByUsername(U, username) : verify_password(password, u.password_hash)}

\* create_token as it would be if it never set the refresh marker
create_token_unmarked(subject, expires_delta, is_refresh, t) ==
    LET expire == IF \E d \in expires_delta : d # 0
                  THEN t + (CHOOSE d \in expires_delta : TRUE)
                  ELSE t + (IF is_refresh THEN JWT_REFRESH_TOKEN_EXPIRES
                                          ELSE JWT_ACCESS_TOKEN_EXPIRES)
    IN jwt_encode([exp |-> {expire}, sub |-> {str(subject)}, refresh |-> {}])

\* create_token(subject, expires_delta, is_refresh) at clock t;
\* expires_delta is {} for None, and a zero timedelta is falsy
create_token(subject, expires_delta, is_refresh, t) ==
    LET expire == IF \E d \in expires_delta : d # 0
                  THEN t + (CHOOSE d \in expires_delta : TRUE)
                  ELSE t + (IF is_refresh THEN JWT_REFRESH_TOKEN_EXPIRES
                                          ELSE JWT_ACCESS_TOKEN_EXPIRES)
    IN jwt_encode([exp |-> {expire}, sub |-> {str(subject)},
                   refresh |-> IF is_refresh THEN {TRUE} ELSE {}])

\* create_access_token as it would be if it marked its tokens as refresh tokens
create_access_token_marked(subject, t) ==
    create_token(subject, {JWT_ACCESS_TOKEN_EXPIRES}, TRUE, t)

create_access_token(subject, t) ==
    create_token(subject, {JWT_ACCESS_TOKEN_EXPIRES}, FALSE, t)

create_refresh_token(subject, t) ==
    create_token(subject, {JWT_REFRESH_TOKEN_EXPIRES}, TRUE, t)

\* decode_token as it would be with options={"verify_exp": False}
decode_token_no_exp(token, t) ==
    IF token.form = "jwt" /\ token.alg = JWT_ALGORITHM /\ token.key = JWT_SECRET
    THEN {[sub |-> token.sub, exp |-> token.exp, refresh |-> token.refresh]}
    ELSE {}

\* decode_token: the payload, or {} for None
decode_token(token, t) ==
    LET d == jwt_decode(token, t) IN IF d.ok THEN d.payload ELSE {}

\* ---- apps/auth/routes.py -----------------------------------------------
\* A response: the status, the `error` text of an error body, the tokens of
\* a token envelope, and whether the handler queried the users table.
Response(status, error, access, refresh, lookup) ==
    [status |-> status, error |-> error, access_token |-> access,
     refresh_token |-> refresh, lookup |-> lookup]

\* an unhandled exception: the framework answers 500
ServerError(lookup) == Response(500, "Internal Server Error", {}, {}, lookup)

\* `not value` for an optional string: None or ""
Falsy(v) == v = {} \/ v = {""}

\* login as it would be if it told an unknown username from a wrong password
login_tells_unknown(U, username, password, t) ==
    IF Falsy(username) \/ Falsy(password)
    THEN Response(400, "Please provide username and password", {}, {}, FALSE)
    ELSE IF \A n \in username : ByUsername(U, n) = {}
    THEN Response(404, "User not found", {}, {}, TRUE)
    ELSE LET user == authenticate_user(U, CHOOSE x \in username : TRUE,
                                          CHOOSE x \in password : TRUE)
         IN IF user = {}
            THEN Response(401, "Invalid username or password", {}, {}, TRUE)
            ELSE LET u == CHOOSE x \in user : TRUE
                 IN Response(200, "", {create_access_token(u.id, t)},
                             {create_refresh_token(u.id, t)}, TRUE)

\* POST /auth/login with body {username, password}
login(U, username, password, t) ==
    IF Falsy(username) \/ Falsy(password)
    THEN Response(400, "Please provide username and password", {}, {}, FALSE)
    ELSE LET user == authenticate_user(U, CHOOSE x \in username : TRUE,
                                          CHOOSE x \in password : TRUE)
         IN IF user = {}
            THEN Response(401, "Invalid username or password", {}, {}, TRUE)
            ELSE LET u == CHOOSE x \in user : TRUE
                 IN Response(200, "", {create_access_token(u.id, t)},
                             {create_refresh_token(u.id, t)}, TRUE)

\* `not payload` for a decoded payload: None or the empty dict
PayloadFalsy(p) ==
    p = {} \/ \A x \in p : x.sub = {} /\ x.exp = {} /\ x.refresh = {}

\* /auth/refresh as it would be without the `"refresh" not in payload` test
refresh_token_any_kind(token, t) ==
    IF token = {} \/ token = {EmptyString}
    THEN Response(400, "Please provide refresh token", {}, {}, FALSE)
    ELSE LET payload == decode_token(CHOOSE x \in token : TRUE, t)
         IN IF PayloadFalsy(payload)
            THEN Response(401, "Invalid refresh token", {}, {}, FALSE)
            ELSE LET sub == (CHOOSE x \in payload : TRUE).sub
                 IN IF \E s \in sub : s \in NumericStrings
                    THEN Response(200, "",
                           {create_access_token(int(CHOOSE s \in sub : TRUE), t)},
                           {}, FALSE)
                    ELSE ServerError(FALSE)

\* /auth/refresh as it would be if the new token's lifetime ran from the
\* epoch instead of the time of the refresh
refresh_token_backdated(token, t) ==
    IF token = {} \/ token = {EmptyString}
    THEN Response(400, "Please provide refresh token", {}, {}, FALSE)
    ELSE LET payload == decode_token(CHOOSE x \in token : TRUE, t)
         IN IF PayloadFalsy(payload) \/ \A x \in payload : x.refresh = {}
            THEN Response(401, "Invalid refresh token", {}, {}, FALSE)
            ELSE LET sub == (CHOOSE x \in payload : TRUE).sub
                 IN IF \E s \in sub : s \in NumericStrings
                    THEN Response(200, "",
                           {create_access_token(int(CHOOSE s \in sub : TRUE), 0)},
                           {}, FALSE)
                    ELSE ServerError(FALSE)

\* POST /auth/refresh with body {refresh_token}
refresh_token(token, t) ==
    IF token = {} \/ token = {EmptyString}
    THEN Response(400, "Please provide refresh token", {}, {}, FALSE)
    ELSE LET payload == decode_token(CHOOSE x \in token : TRUE, t)
         IN IF PayloadFalsy(payload) \/ \A x \in payload : x.refresh = {}
            THEN Response(401, "Invalid refresh token", {}, {}, FALSE)
            ELSE LET sub == (CHOOSE x \in payload : TRUE).sub
                 IN IF \E s \in sub : s \in NumericStrings
                    THEN Response(200, "",
                           {create_access_token(int(CHOOSE s \in sub : TRUE), t)},
                           {}, FALSE)
                    ELSE ServerError(FALSE)


\* ---- requests ----------------------------------------------------------
Usernames == {"alice", "bob"}
Emails == {"a@x.io", "b@x.io"}

\* a request and its inputs
Request(op, path, header, username, email, password, token) ==
    [op |-> op, path |-> path, header |-> header, username |-> username,
     email |-> email, password |-> password, token |-> token]

NoResponse == Response(0, "", {}, {}, FALSE)

\* the headers a client sends: none, or the token it holds as Bearer token
HeldHeaders == {NoHeader} \cup {Bearer(k) : k \in held}

\* `not request.ctx.user`: None or 0
Anonymous(c) == c.user = {} \/ c.user = {0}

\* ---- core/events.py, app.py -------------------------------------------
EventTypes ==
    {"USER_CREATED", "USER_UPDATED", "USER_DELETED",
     "POST_CREATED", "POST_UPDATED", "POST_DELETED",
     "TAG_CREATED", "TAG_UPDATED", "TAG_DELETED"}

\* a subscribed callback: a plain function or a coroutine function, which
\* returns or raises when it runs
Callback(kind, raises) == [kind |-> kind, raises |-> raises]

\* the subscribers app.py registers: a coroutine function that logs, for
\* each of the three post events
AppSubscribers ==
    [e \in EventTypes |->
        IF e \in {"POST_CREATED", "POST_UPDATED", "POST_DELETED"}
        THEN <<Callback("async", FALSE)>> ELSE <<>>]

\* an event handed to EventBus.publish
Event(event_type, data) == [type |-> event_type, data |-> data]

\* ---- core/cache.py -----------------------------------------------------
CacheKeys == {"k1", "k2"}
EmptyCache == [k \in CacheKeys |-> {}]

Init ==
    /\ now = 0
    /\ users = {}
    /\ nextId = 1
    /\ posts = {}
    /\ tags = {}
    /\ held = {}
    /\ req = Request("none", "/", NoHeader, {}, {}, {}, {})
    /\ ctx = CtxUnset
    /\ raised = FALSE
    /\ resp = NoResponse
    /\ published = <<>>
    /\ subscribers = AppSubscribers
    /\ cache = EmptyCache
    /\ lastSet = EmptyCache
    /\ tasks = <<>>

\* the clock advances
Tick ==
    /\ now < MaxTime
    /\ now' = now + 1
    /\ UNCHANGED <<users, nextId, held, req, ctx, raised, resp, posts, tags,
                 published, subscribers, cache, lastSet, tasks>>

\* The request middleware on a request whose route handler is outside the
\* model: only the context it leaves is recorded.
Inbound(path, header) ==
    LET mw == jwt_middleware(path, header, now) IN
    /\ req' = Request("inbound", path, header, {}, {}, {}, {})
    /\ ctx' = mw.ctx
    /\ raised' = mw.raised
    /\ resp' = IF mw.raised THEN ServerError(FALSE) ELSE NoResponse
    /\ published' = <<>>
    /\ UNCHANGED <<now, users, nextId, held, posts, tags, subscribers, cache, lastSet, tasks>>

InboundHeld ==
    \E path \in {"/", "/api/v1/posts"}, header \in HeldHeaders : Inbound(path, header)

\* a request that has arrived and waits for the middleware
Pending(path, header) == Request("pending", path, header, {}, {}, {}, {})

InboundPending == req.op = "pending" /\ Inbound(req.path, req.header)

\* register as it would be if it looked for the username only
Register_username_only(username, email, password, salt) ==
    LET existing == ByUsername(users, username)
        mw == jwt_middleware("/auth/register", NoHeader, now)
    IN
    /\ req' = Request("register", "/auth/register", NoHeader,
                      {username}, {email}, {password}, {})
    /\ ctx' = mw.ctx
    /\ raised' = FALSE
    /\ IF existing # {}
       THEN /\ resp' = Response(400, "Username or email already exists",
                                {}, {}, TRUE)
            /\ UNCHANGED <<users, nextId>>
       ELSE /\ nextId <= MaxUsers
            /\ users' = users \cup
                 {[id |-> nextId, username |-> username, email |-> email,
                   password_hash |-> get_password_hash(password, salt)]}
            /\ nextId' = nextId + 1
            /\ resp' = Response(200, "", {create_access_token(nextId, now)},
                                {create_refresh_token(nextId, now)}, TRUE)
    /\ published' = <<>>
    /\ UNCHANGED <<now, held, posts, tags, subscribers, cache, lastSet, tasks>>

\* POST /auth/register with a body that passes UserCreate's validation
Register(username, email, password, salt) ==
    LET existing == IF ByUsername(users, username) # {}
                    THEN ByUsername(users, username)
                    ELSE ByEmail(users, email)
        mw == jwt_middleware("/auth/register", NoHeader, now)
    IN
    /\ req' = Request("register", "/auth/register", NoHeader,
                      {username}, {email}, {password}, {})
    /\ ctx' = mw.ctx
    /\ raised' = FALSE
    /\ IF existing # {}
       THEN /\ resp' = Response(400, "Username or email already exists",
                                {}, {}, TRUE)
            /\ UNCHANGED <<users, nextId>>
       ELSE /\ nextId <= MaxUsers
            /\ users' = users \cup
                 {[id |-> nextId, username |-> username, email |-> email,
                   password_hash |-> get_password_hash(password, salt)]}
            /\ nextId' = nextId + 1
            /\ resp' = Response(200, "", {create_access_token(nextId, now)},
                                {create_refresh_token(nextId, now)}, TRUE)
    /\ published' = <<>>
    /\ UNCHANGED <<now, held, posts, tags, subscribers, cache, lastSet, tasks>>

RegisterAny ==
    \E username \in Usernames, email \in Emails, password \in Passwords,
       salt \in Salts : Register(username, email, password, salt)

\* POST /auth/login
Login(username, password) ==
    LET mw == jwt_middleware("/auth/login", NoHeader, now) IN
    /\ req' = Request("login", "/auth/login", NoHeader, username, {}, password, {})
    /\ ctx' = mw.ctx
    /\ raised' = FALSE
    /\ resp' = login(users, username, password, now)
    /\ published' = <<>>
    /\ UNCHANGED <<now, users, nextId, held, posts, tags, subscribers, cache, lastSet, tasks>>

LoginAny ==
    \E username \in Opt(Usernames \cup {""}), password \in Opt(Passwords \cup {""}) :
        Login(username, password)

\* POST /auth/refresh
Refresh(token) ==
    LET mw == jwt_middleware("/auth/refresh", NoHeader, now)
        r == refresh_token(token, now)
    IN
    /\ req' = Request("refresh", "/auth/refresh", NoHeader, {}, {}, {}, token)
    /\ ctx' = mw.ctx
    /\ raised' = (r.status = 500)
    /\ resp' = r
    /\ published' = <<>>
    /\ UNCHANGED <<now, users, nextId, held, posts, tags, subscribers, cache, lastSet, tasks>>

RefreshHeld == \E token \in Opt(held) : Refresh(token)

\* a refresh request that has arrived and waits for its handler
PendingRefresh(token) ==
    Request("pending", "/auth/refresh", NoHeader, {}, {}, {}, token)

RefreshPending == req.op = "pending" /\ Refresh(req.token)

\* the client keeps a token of the response it just received, in place of
\* the one it held
Keep ==
    /\ \E k \in resp.access_token \cup resp.refresh_token :
          /\ k \notin held
          /\ held' = {k}
    /\ UNCHANGED <<now, users, nextId, req, ctx, raised, resp, posts, tags,
                 published, subscribers, cache, lastSet, tasks>>


\* ---- apps/api_v1/users.py, services/user_service.py --------------------
\* a row with the fields of `data` that are set written over it
WithFields(u, username, email) ==
    [u EXCEPT !.username = IF username = {} THEN @ ELSE CHOOSE x \in username : TRUE,
              !.email = IF email = {} THEN @ ELSE CHOOSE x \in email : TRUE]

\* PUT /api/v1/users/me as the users blueprint wires it (UserService built
\* with cache=None): update_user saves the row, publishes USER_UPDATED and
\* then calls self.cache.delete on None, which raises after the save.
UpdateCurrentUser(header, username, email) ==
    LET mw == jwt_middleware("/api/v1/users/me", header, now)
        user == IF Anonymous(mw.ctx) THEN {}
                ELSE ById(users, CHOOSE x \in mw.ctx.user : TRUE)
        taken == \/ \E n \in username, u \in user : \E o \in ByUsername(users, n) :
                       n # u.username /\ o.id # u.id
                 \/ \E e \in email, u \in user : \E o \in ByEmail(users, e) :
                       e # u.email /\ o.id # u.id
    IN
    /\ req' = Request("update_current_user", "/api/v1/users/me", header,
                      username, email, {}, {})
    /\ ctx' = mw.ctx
    /\ IF mw.raised
       THEN raised' = TRUE /\ resp' = ServerError(FALSE) /\ UNCHANGED users
       ELSE IF Anonymous(mw.ctx)
       THEN raised' = FALSE /\ UNCHANGED users
            /\ resp' = Response(401, "Please login first", {}, {}, FALSE)
       ELSE IF user = {}
       THEN raised' = FALSE /\ UNCHANGED users
            /\ resp' = Response(404, "User not found", {}, {}, TRUE)
       ELSE IF taken
       THEN raised' = TRUE /\ resp' = ServerError(TRUE) /\ UNCHANGED users
       ELSE /\ users' = (users \ user) \cup
                           {WithFields(u, username, email) : u \in user}
            /\ raised' = TRUE
            /\ resp' = ServerError(TRUE)
    /\ published' = IF ~mw.raised /\ user # {} /\ ~taken
                    THEN <<Event("USER_UPDATED", CHOOSE x \in mw.ctx.user : TRUE)>>
                    ELSE <<>>
    /\ UNCHANGED <<now, nextId, held, posts, tags, subscribers, cache, lastSet, tasks>>

\* the bodies enumerated for it set at most one field
UpdateCurrentUserHeld ==
    \E header \in HeldHeaders, username \in Opt(Usernames), email \in Opt(Emails) :
        /\ username = {} \/ email = {}
        /\ UpdateCurrentUser(header, username, email)

\* ---- apps/api_v1/user.py -----------------------------------------------
\* PUT /users/me of the plain users blueprint: the one operation that
\* changes a password.  User.filter(id=..).update(..) writes the set
\* fields; a username or email another row holds violates the table's
\* unique constraint and the request fails with nothing written.
update_user(header, username, email, password, salt) ==
    LET mw == jwt_middleware("/api/v1/users/me", header, now)
        user == IF Anonymous(mw.ctx) THEN {}
                ELSE ById(users, CHOOSE x \in mw.ctx.user : TRUE)
        clash == \/ \E n \in username, u \in user : \E o \in ByUsername(users, n) :
                       o.id # u.id
                 \/ \E e \in email, u \in user : \E o \in ByEmail(users, e) :
                       o.id # u.id
        written(u) ==
            [WithFields(u, username, email) EXCEPT
                !.password_hash = IF password = {} THEN @
                    ELSE get_password_hash(CHOOSE x \in password : TRUE, salt)]
    IN
    /\ req' = Request("update_user", "/api/v1/users/me", header,
                      username, email, password, {})
    /\ ctx' = mw.ctx
    /\ IF mw.raised
       THEN raised' = TRUE /\ resp' = ServerError(FALSE) /\ UNCHANGED users
       ELSE IF Anonymous(mw.ctx)
       THEN raised' = FALSE /\ UNCHANGED users
            /\ resp' = Response(401, "Please login first", {}, {}, FALSE)
       ELSE IF user = {}
       THEN raised' = FALSE /\ UNCHANGED users
            /\ resp' = Response(404, "User not found", {}, {}, TRUE)
       ELSE IF clash
       THEN raised' = TRUE /\ resp' = ServerError(TRUE) /\ UNCHANGED users
       ELSE /\ users' = (users \ user) \cup {written(u) : u \in user}
            /\ raised' = FALSE
            /\ resp' = Response(200, "", {}, {}, TRUE)
    /\ published' = <<>>
    /\ UNCHANGED <<now, nextId, held, posts, tags, subscribers, cache, lastSet, tasks>>

\* the bodies enumerated for it: a password change, alone
ChangePasswordHeld ==
    \E header \in HeldHeaders, password \in Passwords, salt \in Salts :
        update_user(header, {}, {}, {password}, salt)

\* ---- services/user_service.py ------------------------------------------
\* UserService.delete_user(user_id), a service call with no route: the row
\* is deleted, USER_DELETED published, and self.cache.delete on None raises.
delete_user(user_id) ==
    /\ req' = Request("delete_user", "", NoHeader, {}, {}, {}, {})
    /\ ctx' = CtxUnset
    /\ resp' = NoResponse
    /\ IF ById(users, user_id) = {}
       THEN raised' = FALSE /\ UNCHANGED users
       ELSE raised' = TRUE /\ users' = users \ ById(users, user_id)
    /\ published' = IF ById(users, user_id) = {} THEN <<>>
                    ELSE <<Event("USER_DELETED", user_id)>>
    /\ UNCHANGED <<now, nextId, held, posts, tags, subscribers, cache, lastSet, tasks>>

DeleteUser == \E user_id \in 1 .. MaxUsers : delete_user(user_id)

\* ---- specifications ----------------------------------------------------
\* clients that register, log in, keep the tokens they are given and use
\* them, while users are updated and deleted
Next ==
    \/ Tick
    \/ RegisterAny
    \/ LoginAny
    \/ Keep
    \/ InboundHeld
    \/ RefreshHeld
    \/ UpdateCurrentUserHeld
    \/ ChangePasswordHeld
    \/ DeleteUser

Spec == Init /\ [][Next]_vars

\* ---- services/auth.py called directly ----------------------------------
\* the subjects and the durations (in time units) a caller passes
Subjects == 1 .. MaxUsers
Durations == (0 - JWT_ACCESS_TOKEN_EXPIRES) .. JWT_REFRESH_TOKEN_EXPIRES

\* a call of create_token and, once made, of decode_token on its result
IssueCall(op, subject, expires_delta, is_refresh, token) ==
    [op |-> op, subject |-> subject, expires_delta |-> expires_delta,
     is_refresh |-> is_refresh, token |-> token]

\* the value a service call returned
Returned(v) == [status |-> 0, value |-> v]

\* create_token(subject, expires_delta, is_refresh)
CreateToken ==
    /\ req.op = "pending"
    /\ LET k == create_token(req.subject, req.expires_delta, req.is_refresh, now)
       IN /\ req' = [req EXCEPT !.op = "create_token", !.token = {k}]
          /\ resp' = Returned({k})
    /\ published' = <<>>
    /\ UNCHANGED <<now, users, nextId, posts, tags, held, ctx, raised, subscribers, cache, lastSet, tasks>>

\* decode_token(token) on the token just issued
DecodeToken ==
    /\ req.op = "create_token"
    /\ req' = [req EXCEPT !.op = "decode_token"]
    /\ resp' = Returned(decode_token(CHOOSE k \in req.token : TRUE, now))
    /\ published' = <<>>
    /\ UNCHANGED <<now, users, nextId, posts, tags, held, ctx, raised, subscribers, cache, lastSet, tasks>>

\* ---- core/pagination.py ------------------------------------------------
\* PaginationParams: page >= 1, 1 <= page_size <= 100
PAGE_SIZE_LIMIT == 100

PaginationParams(page, page_size) == [page |-> page, page_size |-> page_size]

Min(a, b) == IF a <= b THEN a ELSE b

\* math.ceil(total_items / page_size) as it would be with floor division
floor_div(total_items, page_size) == total_items \div page_size

\* math.ceil(total_items / page_size), for page_size >= 1
ceil_div(total_items, page_size) ==
    IF total_items % page_size = 0 THEN total_items \div page_size
    ELSE (total_items \div page_size) + 1

\* offset(skip).limit(limit) as it would be if the offset were one too far
OffsetLimit_one_past(queryset, skip, limit) ==
    SubSeq(queryset, skip + 2, Min(skip + limit + 1, Len(queryset)))

\* queryset.offset(skip).limit(limit): the rows after the first `skip`,
\* at most `limit` of them, in the order of the queryset
OffsetLimit(queryset, skip, limit) ==
    SubSeq(queryset, skip + 1, Min(skip + limit, Len(queryset)))

\* the transform functions passed: none, a plain function, a coroutine
\* function; either function maps a row to its response form
TransformFuncs == {"none", "sync", "async"}
Dto(item) == [id |-> item.id, dto |-> TRUE]
Transformed(transform_func, item) ==
    IF transform_func = "none" THEN item ELSE Dto(item)

\* paginate_queryset as it would be with has_next = page <= total_pages
paginate_queryset_has_next_le(queryset, params, transform_func) ==
    LET total_items == Len(queryset)
        total_pages == ceil_div(total_items, params.page_size)
        skip == (params.page - 1) * params.page_size
        items == OffsetLimit(queryset, skip, params.page_size)
    IN [items |-> [i \in 1 .. Len(items) |-> Transformed(transform_func, items[i])],
        page_info |-> [total_items |-> total_items,
                       total_pages |-> total_pages,
                       current_page |-> params.page,
                       page_size |-> params.page_size,
                       has_next |-> params.page <= total_pages,
                       has_previous |-> params.page > 1]]

\* paginate_queryset as it would be with skip = page * page_size
paginate_queryset_skip_page(queryset, params, transform_func) ==
    LET total_items == Len(queryset)
        total_pages == ceil_div(total_items, params.page_size)
        skip == params.page * params.page_size
        items == OffsetLimit(queryset, skip, params.page_size)
    IN [items |-> [i \in 1 .. Len(items) |-> Transformed(transform_func, items[i])],
        page_info |-> [total_items |-> total_items,
                       total_pages |-> total_pages,
                       current_page |-> params.page,
                       page_size |-> params.page_size,
                       has_next |-> params.page < total_pages,
                       has_previous |-> params.page > 1]]

\* paginate_queryset(queryset, params, transform_func): a count query, a
\* fetch of the window, the transform applied item by item
paginate_queryset(queryset, params, transform_func) ==
    LET total_items == Len(queryset)
        total_pages == ceil_div(total_items, params.page_size)
        skip == (params.page - 1) * params.page_size
        items == OffsetLimit(queryset, skip, params.page_size)
    IN [items |-> [i \in 1 .. Len(items) |-> Transformed(transform_func, items[i])],
        page_info |-> [total_items |-> total_items,
                       total_pages |-> total_pages,
                       current_page |-> params.page,
                       page_size |-> params.page_size,
                       has_next |-> params.page < total_pages,
                       has_previous |-> params.page > 1]]

\* the sources paginated: n rows with distinct ids, in ascending or in
\* descending order of id
Row(i) == [id |-> i]
Querysets ==
    {[i \in 1 .. n |-> Row(i)] : n \in 0 .. MaxItems}
    \cup {[i \in 1 .. n |-> Row(n + 1 - i)] : n \in 0 .. MaxItems}

Pages == 1 .. MaxPage
PageSizes == (1 .. MaxPageSize) \cup {PAGE_SIZE_LIMIT}

\* a call of paginate_queryset
PaginateCall(op, queryset, page, page_size, transform_func) ==
    [op |-> op, queryset |-> queryset, page |-> page, page_size |-> page_size,
     transform_func |-> transform_func]

Paginate ==
    /\ req.op = "pending"
    /\ req' = [req EXCEPT !.op = "paginate"]
    /\ resp' = Returned(paginate_queryset(req.queryset,
                            PaginationParams(req.page, req.page_size),
                            req.transform_func))
    /\ published' = <<>>
    /\ UNCHANGED <<now, users, nextId, posts, tags, held, ctx, raised, subscribers, cache, lastSet, tasks>>

\* ---- apps/api_v1: the store and the requests to it ----------------------
\* the users, posts and tags the store starts from: two registered users,
\* a post of each, two tags; a post's tags are ids of rows of the tags table
TwoUsers ==
    {[id |-> 1, username |-> "alice", email |-> "a@x.io",
      password_hash |-> get_password_hash("pw1", "s1")],
     [id |-> 2, username |-> "bob", email |-> "b@x.io",
      password_hash |-> get_password_hash("pw2", "s1")]}
Titles == {"t1", "t2"}
TagNames == {"python", "sanic"}
PostRows == {[id |-> 1, title |-> "t1", author_id |-> 1, tags |-> {1}],
             [id |-> 2, title |-> "t2", author_id |-> 2, tags |-> {}]}
TagRows == {[id |-> 1, name |-> "python"], [id |-> 2, name |-> "sanic"]}
Stores ==
    {st \in [posts : SUBSET PostRows, tags : SUBSET TagRows] :
        \A x \in st.posts : x.tags \subseteq {t.id : t \in st.tags}}

\* the primary key an insert into table T is given
NextKey(T) ==
    IF T = {} THEN 1
    ELSE 1 + (CHOOSE m \in {x.id : x \in T} : \A x \in T : x.id <= m)

\* the rows of a table as a query without order_by returns them: by id
Table(T) ==
    CHOOSE q \in [1 .. Cardinality(T) -> T] :
        \A i, j \in 1 .. Cardinality(T) : i < j => q[i].id < q[j].id

\* the tokens register and login have issued to the two users up to time t
IssuedAccessTokens(t) ==
    {create_access_token(i, t0) : i \in {u.id : u \in TwoUsers}, t0 \in 0 .. t}
IssuedRefreshTokens(t) ==
    {create_refresh_token(i, t0) : i \in {u.id : u \in TwoUsers}, t0 \in 0 .. t}

\* the Authorization headers of a client at time t
ClientHeaders(t) ==
    {NoHeader, Bearer(Garbage)}
    \cup {Bearer(k) : k \in IssuedAccessTokens(t) \cup IssuedRefreshTokens(t)}

\* a request to a handler of api_v1 that waits for it: the Authorization
\* header, the id in the path, the fields of the JSON body and the query
\* arguments
ApiCall(handler, header, id, title, name, tag_ids, username, email, page, page_size) ==
    [op |-> "pending", handler |-> handler, header |-> header, id |-> id,
     title |-> title, name |-> name, tag_ids |-> tag_ids,
     username |-> username, email |-> email, page |-> page,
     page_size |-> page_size]

Unauthorized == Response(401, "Please login first", {}, {}, FALSE)
NotFound(error) == Response(404, error, {}, {}, TRUE)
Ok == Response(200, "", {}, {}, TRUE)

\* the response of a list endpoint: also the store queries it ran, the
\* PaginationParams paginate_queryset was called with, and the body
ListResponse(status, error, queries, paginated, body) ==
    [status |-> status, error |-> error, access_token |-> {},
     refresh_token |-> {}, lookup |-> queries # <<>>, queries |-> queries,
     paginated |-> paginated, body |-> body]

\* ---- apps/api_v1/posts.py ----------------------------------------------
\* GET /api/v1/posts: every post, with no authentication check and no
\* pagination; the query arguments are not read
GetPosts ==
    LET mw == jwt_middleware("/api/v1/posts", req.header, now) IN
    /\ req.op = "pending" /\ req.handler = "get_posts"
    /\ req' = [req EXCEPT !.op = "get_posts"]
    /\ ctx' = mw.ctx
    /\ raised' = mw.raised
    /\ resp' = IF mw.raised THEN ListResponse(500, "Internal Server Error", <<>>, {}, {})
               ELSE ListResponse(200, "", <<"all">>, {}, {Table(posts)})
    /\ published' = <<>>
    /\ UNCHANGED <<now, users, nextId, posts, tags, held, subscribers, cache, lastSet, tasks>>

\* POST /api/v1/posts with a body PostCreate accepts; the tag ids that
\* match no tag are dropped
CreatePost ==
    LET mw == jwt_middleware("/api/v1/posts", req.header, now) IN
    /\ req.op = "pending" /\ req.handler = "create_post"
    /\ req' = [req EXCEPT !.op = "create_post"]
    /\ ctx' = mw.ctx
    /\ IF mw.raised
       THEN raised' = TRUE /\ resp' = ServerError(FALSE) /\ UNCHANGED posts
       ELSE IF Anonymous(mw.ctx)
       THEN raised' = FALSE /\ resp' = Unauthorized /\ UNCHANGED posts
       ELSE LET user_id == CHOOSE x \in mw.ctx.user : TRUE
                valid_tags == {t.id : t \in tags} \cap UNION req.tag_ids
            IN /\ posts' = posts \cup
                    {[id |-> NextKey(posts),
                      title |-> CHOOSE v \in req.title : TRUE,
                      author_id |-> user_id, tags |-> valid_tags]}
               /\ raised' = FALSE
               /\ resp' = Ok
    /\ published' = <<>>
    /\ UNCHANGED <<now, users, nextId, tags, held, subscribers, cache, lastSet, tasks>>

\* PUT /api/v1/posts/<post_id> with the post looked up by its id alone
UpdatePost_any_author ==
    LET mw == jwt_middleware("/api/v1/posts/<post_id>", req.header, now) IN
    /\ req.op = "pending" /\ req.handler = "update_post"
    /\ req' = [req EXCEPT !.op = "update_post"]
    /\ ctx' = mw.ctx
    /\ IF mw.raised
       THEN raised' = TRUE /\ resp' = ServerError(FALSE) /\ UNCHANGED posts
       ELSE IF Anonymous(mw.ctx)
       THEN raised' = FALSE /\ resp' = Unauthorized /\ UNCHANGED posts
       ELSE LET post == {x \in posts : x.id = req.id}
                written(x) ==
                    [x EXCEPT !.title = IF req.title = {} THEN @
                                        ELSE CHOOSE v \in req.title : TRUE,
                              !.tags = IF req.tag_ids = {} THEN @
                                       ELSE {t.id : t \in tags} \cap UNION req.tag_ids]
            IN /\ raised' = FALSE
               /\ IF post = {}
                  THEN /\ resp' = NotFound("Post not found or you don't have permission to modify it")
                       /\ UNCHANGED posts
                  ELSE /\ posts' = (posts \ post) \cup {written(x) : x \in post}
                       /\ resp' = Ok
    /\ published' = <<>>
    /\ UNCHANGED <<now, users, nextId, tags, held, subscribers, cache, lastSet, tasks>>

\* PUT /api/v1/posts/<post_id> with a body PostUpdate accepts
UpdatePost ==
    LET mw == jwt_middleware("/api/v1/posts/<post_id>", req.header, now) IN
    /\ req.op = "pending" /\ req.handler = "update_post"
    /\ req' = [req EXCEPT !.op = "update_post"]
    /\ ctx' = mw.ctx
    /\ IF mw.raised
       THEN raised' = TRUE /\ resp' = ServerError(FALSE) /\ UNCHANGED posts
       ELSE IF Anonymous(mw.ctx)
       THEN raised' = FALSE /\ resp' = Unauthorized /\ UNCHANGED posts
       ELSE LET user_id == CHOOSE x \in mw.ctx.user : TRUE
                post == {x \in posts : x.id = req.id /\ x.author_id = user_id}
                written(x) ==
                    [x EXCEPT !.title = IF req.title = {} THEN @
                                        ELSE CHOOSE v \in req.title : TRUE,
                              !.tags = IF req.tag_ids = {} THEN @
                                       ELSE {t.id : t \in tags} \cap UNION req.tag_ids]
            IN /\ raised' = FALSE
               /\ IF post = {}
                  THEN /\ resp' = NotFound("Post not found or you don't have permission to modify it")
                       /\ UNCHANGED posts
                  ELSE /\ posts' = (posts \ post) \cup {written(x) : x \in post}
                       /\ resp' = Ok
    /\ published' = <<>>
    /\ UNCHANGED <<now, users, nextId, tags, held, subscribers, cache, lastSet, tasks>>

\* DELETE /api/v1/posts/<post_id>
DeletePost ==
    LET mw == jwt_middleware("/api/v1/posts/<post_id>", req.header, now) IN
    /\ req.op = "pending" /\ req.handler = "delete_post"
    /\ req' = [req EXCEPT !.op = "delete_post"]
    /\ ctx' = mw.ctx
    /\ IF mw.raised
       THEN raised' = TRUE /\ resp' = ServerError(FALSE) /\ UNCHANGED posts
       ELSE IF Anonymous(mw.ctx)
       THEN raised' = FALSE /\ resp' = Unauthorized /\ UNCHANGED posts
       ELSE LET user_id == CHOOSE x \in mw.ctx.user : TRUE
                post == {x \in posts : x.id = req.id /\ x.author_id = user_id}
            IN /\ raised' = FALSE
               /\ posts' = posts \ post
               /\ resp' = IF post = {}
                          THEN NotFound("Post not found or you don't have permission to delete it")
                          ELSE Ok
    /\ published' = <<>>
    /\ UNCHANGED <<now, users, nextId, tags, held, subscribers, cache, lastSet, tasks>>

\* ---- apps/api_v1/tags.py, services/tag_service.py ----------------------
\* the query arguments of a list endpoint: page defaults to 1, page_size
\* to 10 and is cut to 100
DEFAULT_PAGE == 1
DEFAULT_PAGE_SIZE == 10
ParsePagination(page, page_size) ==
    PaginationParams(
        IF page = {} THEN DEFAULT_PAGE ELSE CHOOSE v \in page : TRUE,
        Min(IF page_size = {} THEN DEFAULT_PAGE_SIZE
            ELSE CHOOSE v \in page_size : TRUE, PAGE_SIZE_LIMIT))

\* PaginationParams(page=.., page_size=..) validates: page >= 1 and
\* 1 <= page_size <= 100, a ValidationError otherwise
ValidParams(params) ==
    /\ params.page >= 1
    /\ params.page_size >= 1 /\ params.page_size <= PAGE_SIZE_LIMIT

\* a list endpoint after its authentication check, if it has one: the
\* arguments are parsed and validated, then the table is paginated
Listing(T) ==
    LET params == ParsePagination(req.page, req.page_size) IN
    IF ~ValidParams(params)
    THEN ListResponse(500, "Internal Server Error", <<>>, {}, {})
    ELSE ListResponse(200, "", <<"count", "fetch">>, {params},
                      {paginate_queryset(Table(T), params, "sync")})

\* GET /api/v1/tags
GetTags ==
    LET mw == jwt_middleware("/api/v1/tags", req.header, now)
        r == Listing(tags)
    IN
    /\ req.op = "pending" /\ req.handler = "get_tags"
    /\ req' = [req EXCEPT !.op = "get_tags"]
    /\ ctx' = mw.ctx
    /\ raised' = (mw.raised \/ r.status = 500)
    /\ resp' = IF mw.raised THEN ListResponse(500, "Internal Server Error", <<>>, {}, {})
               ELSE r
    /\ published' = <<>>
    /\ UNCHANGED <<now, users, nextId, posts, tags, held, subscribers, cache, lastSet, tasks>>

\* GET /api/v1/tags/<tag_id>/posts: after the arguments are validated the
\* tag is looked up; for a tag that exists the service passes the post
\* repository's paginate one positional argument too many (and a coroutine
\* for a queryset), a TypeError before paginate_queryset is reached
GetTagPosts ==
    LET mw == jwt_middleware("/api/v1/tags/<tag_id>/posts", req.header, now)
        params == ParsePagination(req.page, req.page_size)
        tag == {t \in tags : t.id = req.id}
        r == IF ~ValidParams(params)
             THEN ListResponse(500, "Internal Server Error", <<>>, {}, {})
             ELSE IF tag = {}
             THEN ListResponse(404, "Tag not found", <<"get">>, {}, {})
             ELSE ListResponse(500, "Internal Server Error", <<"get">>, {}, {})
    IN
    /\ req.op = "pending" /\ req.handler = "get_tag_posts"
    /\ req' = [req EXCEPT !.op = "get_tag_posts"]
    /\ ctx' = mw.ctx
    /\ raised' = (mw.raised \/ r.status = 500)
    /\ resp' = IF mw.raised THEN ListResponse(500, "Internal Server Error", <<>>, {}, {})
               ELSE r
    /\ published' = <<>>
    /\ UNCHANGED <<now, users, nextId, posts, tags, held, subscribers, cache, lastSet, tasks>>

\* POST /api/v1/tags with a body TagCreate accepts: the tag of that name
\* is returned if there is one, and created otherwise
CreateTag ==
    LET mw == jwt_middleware("/api/v1/tags", req.header, now) IN
    /\ req.op = "pending" /\ req.handler = "create_tag"
    /\ req' = [req EXCEPT !.op = "create_tag"]
    /\ ctx' = mw.ctx
    /\ IF mw.raised
       THEN raised' = TRUE /\ resp' = ServerError(FALSE) /\ UNCHANGED tags
       ELSE IF Anonymous(mw.ctx)
       THEN raised' = FALSE /\ resp' = Unauthorized /\ UNCHANGED tags
       ELSE /\ raised' = FALSE
            /\ resp' = Ok
            /\ IF \E t \in tags : t.name = req.name
               THEN UNCHANGED tags
               ELSE tags' = tags \cup {[id |-> NextKey(tags), name |-> req.name]}
    /\ published' = <<>>
    /\ UNCHANGED <<now, users, nextId, posts, held, subscribers, cache, lastSet, tasks>>

\* PUT /api/v1/tags/<tag_id> with a body TagUpdate accepts; a name another
\* tag has is a ValueError
UpdateTag ==
    LET mw == jwt_middleware("/api/v1/tags/<tag_id>", req.header, now)
        tag == {t \in tags : t.id = req.id}
    IN
    /\ req.op = "pending" /\ req.handler = "update_tag"
    /\ req' = [req EXCEPT !.op = "update_tag"]
    /\ ctx' = mw.ctx
    /\ IF mw.raised
       THEN raised' = TRUE /\ resp' = ServerError(FALSE) /\ UNCHANGED tags
       ELSE IF Anonymous(mw.ctx)
       THEN raised' = FALSE /\ resp' = Unauthorized /\ UNCHANGED tags
       ELSE IF tag = {}
       THEN raised' = FALSE /\ resp' = NotFound("Tag not found") /\ UNCHANGED tags
       ELSE IF \E t \in tags : t.name = req.name /\ t.id # req.id
       THEN raised' = TRUE /\ resp' = ServerError(TRUE) /\ UNCHANGED tags
       ELSE /\ tags' = (tags \ tag) \cup {[t EXCEPT !.name = req.name] : t \in tag}
            /\ raised' = FALSE
            /\ resp' = Ok
    /\ published' = <<>>
    /\ UNCHANGED <<now, users, nextId, posts, held, subscribers, cache, lastSet, tasks>>

\* delete_tag as it would be with neither @protected() nor the check of
\* request.ctx.user
DeleteTag_unchecked ==
    LET mw == jwt_middleware("/api/v1/tags/<tag_id>", req.header, now)
        tag == {t \in tags : t.id = req.id}
    IN
    /\ req.op = "pending" /\ req.handler = "delete_tag"
    /\ req' = [req EXCEPT !.op = "delete_tag"]
    /\ ctx' = mw.ctx
    /\ IF mw.raised
       THEN raised' = TRUE /\ resp' = ServerError(FALSE) /\ UNCHANGED <<tags, posts>>
       ELSE /\ raised' = FALSE
            /\ resp' = IF tag = {} THEN NotFound("Tag not found") ELSE Ok
            /\ tags' = tags \ tag
            /\ posts' = {[x EXCEPT !.tags = @ \ {req.id}] : x \in posts}
    /\ published' = <<>>
    /\ UNCHANGED <<now, users, nextId, held, subscribers, cache, lastSet, tasks>>

\* DELETE /api/v1/tags/<tag_id>: the tag goes, and with it its rows of the
\* post_tags relation
DeleteTag ==
    LET mw == jwt_middleware("/api/v1/tags/<tag_id>", req.header, now)
        tag == {t \in tags : t.id = req.id}
    IN
    /\ req.op = "pending" /\ req.handler = "delete_tag"
    /\ req' = [req EXCEPT !.op = "delete_tag"]
    /\ ctx' = mw.ctx
    /\ IF mw.raised
       THEN raised' = TRUE /\ resp' = ServerError(FALSE) /\ UNCHANGED <<tags, posts>>
       ELSE IF Anonymous(mw.ctx)
       THEN raised' = FALSE /\ resp' = Unauthorized /\ UNCHANGED <<tags, posts>>
       ELSE /\ raised' = FALSE
            /\ resp' = IF tag = {} THEN NotFound("Tag not found") ELSE Ok
            /\ tags' = tags \ tag
            /\ posts' = {[x EXCEPT !.tags = @ \ {req.id}] : x \in posts}
    /\ published' = <<>>
    /\ UNCHANGED <<now, users, nextId, held, subscribers, cache, lastSet, tasks>>

\* ---- apps/api_v1/users.py: the reads ------------------------------------
\* GET /api/v1/users
GetUsers ==
    LET mw == jwt_middleware("/api/v1/users", req.header, now)
        r == IF Anonymous(mw.ctx)
             THEN ListResponse(401, "Please login first", <<>>, {}, {})
             ELSE Listing(users)
    IN
    /\ req.op = "pending" /\ req.handler = "get_users"
    /\ req' = [req EXCEPT !.op = "get_users"]
    /\ ctx' = mw.ctx
    /\ raised' = (mw.raised \/ r.status = 500)
    /\ resp' = IF mw.raised THEN ListResponse(500, "Internal Server Error", <<>>, {}, {})
               ELSE r
    /\ published' = <<>>
    /\ UNCHANGED <<now, users, nextId, posts, tags, held, subscribers, cache, lastSet, tasks>>

\* GET /api/v1/users/me
GetCurrentUser ==
    LET mw == jwt_middleware("/api/v1/users/me", req.header, now) IN
    /\ req.op = "pending" /\ req.handler = "get_current_user"
    /\ req' = [req EXCEPT !.op = "get_current_user"]
    /\ ctx' = mw.ctx
    /\ raised' = mw.raised
    /\ resp' = IF mw.raised THEN ServerError(FALSE)
               ELSE IF Anonymous(mw.ctx) THEN Unauthorized
               ELSE IF ById(users, CHOOSE x \in mw.ctx.user : TRUE) = {}
               THEN NotFound("User not found")
               ELSE Ok
    /\ published' = <<>>
    /\ UNCHANGED <<now, users, nextId, posts, tags, held, subscribers, cache, lastSet, tasks>>

\* PUT /api/v1/users/me, on a waiting request
UpdateCurrentUserPending ==
    /\ req.op = "pending" /\ req.handler = "update_current_user"
    /\ UpdateCurrentUser(req.header, req.username, req.email)

\* ---- core/cache.py: InMemoryCacheBackend -----------------------------
CacheValues == {"v1", "v2"}
\* the ttl passed to set: None, or a number of time units
Ttls == Opt(0 .. MaxTtl)

\* an item of _cache: 'value', and 'expires_at' if a truthy ttl was given
Item(value, expires_at) == [value |-> value, expires_at |-> expires_at]

\* `expires_at and expires_at < now`
Expired_strict(item, t) == \E e \in item.expires_at : e # 0 /\ e < t

\* `expires_at and expires_at <= now`
Expired(item, t) == \E e \in item.expires_at : e # 0 /\ e <= t

\* a call of a method of the backend
CacheCall(op, key, value, ttl) ==
    [op |-> op, key |-> key, value |-> value, ttl |-> ttl]

\* _clean_expired(), run by the cleaner task: every expired item is deleted
CleanExpired ==
    /\ cache' = [k \in CacheKeys |->
                    IF \E item \in cache[k] : Expired(item, now) THEN {}
                    ELSE cache[k]]
    /\ req' = CacheCall("_clean_expired", "", {}, {})
    /\ resp' = NoResponse
    /\ UNCHANGED <<now, users, nextId, posts, tags, held, ctx, raised,
                   published, subscribers, lastSet, tasks>>

\* get(key): None if the key is missing; None, with the item deleted, if
\* the item has expired; else its value
CacheGet(key) ==
    LET item == cache[key]
        expired == \E i \in item : Expired(i, now)
    IN
    /\ req' = CacheCall("get", key, {}, {})
    /\ resp' = Returned(IF item = {} \/ expired THEN {}
                        ELSE {i.value : i \in item})
    /\ cache' = IF expired THEN [cache EXCEPT ![key] = {}] ELSE cache
    /\ UNCHANGED <<now, users, nextId, posts, tags, held, ctx, raised,
                   published, subscribers, lastSet, tasks>>

\* set(key, value, ttl): expires_at = time.time() + ttl if ttl is truthy
CacheSet(key, value, ttl) ==
    LET expires_at == {now + t : t \in ttl \ {0}} IN
    /\ req' = CacheCall("set", key, {value}, ttl)
    /\ resp' = Returned({})
    /\ cache' = [cache EXCEPT ![key] = {Item(value, expires_at)}]
    /\ lastSet' = [lastSet EXCEPT
                      ![key] = {[value |-> value, ttl |-> ttl, at |-> now]}]
    /\ UNCHANGED <<now, users, nextId, posts, tags, held, ctx, raised,
                   published, subscribers, tasks>>

\* delete(key)
CacheDelete(key) ==
    /\ req' = CacheCall("delete", key, {}, {})
    /\ resp' = Returned({})
    /\ cache' = [cache EXCEPT ![key] = {}]
    /\ lastSet' = [lastSet EXCEPT ![key] = {}]
    /\ UNCHANGED <<now, users, nextId, posts, tags, held, ctx, raised,
                   published, subscribers, tasks>>

\* clear()
CacheClear ==
    /\ req' = CacheCall("clear", "", {}, {})
    /\ resp' = Returned({})
    /\ cache' = EmptyCache
    /\ lastSet' = EmptyCache
    /\ UNCHANGED <<now, users, nextId, posts, tags, held, ctx, raised,
                   published, subscribers, tasks>>

CacheGetAny == \E key \in CacheKeys : CacheGet(key)
CacheSetAny ==
    \E key \in CacheKeys, value \in CacheValues, ttl \in Ttls :
        CacheSet(key, value, ttl)
CacheDeleteAny == \E key \in CacheKeys : CacheDelete(key)

\* ---- requests handled concurrently -----------------------------------
\* the requests in progress at once: each is a coroutine of the one event
\* loop, and runs without interruption from one await to the next
Tasks == {"a", "b"}

\* a request that has arrived: its own request object, with its own ctx
Arrived(path, header) ==
    [pc |-> "arrived", path |-> path, header |-> header, ctx |-> CtxUnset,
     raised |-> FALSE, at |-> {}, seen |-> {}]

\* jwt_middleware as it would be if it kept the identity in one place
\* shared by the requests in progress
MiddlewareRuns_shared(i) ==
    LET mw == jwt_middleware(tasks[i].path, tasks[i].header, now) IN
    /\ tasks[i].pc = "arrived"
    /\ tasks' = [j \in Tasks |->
                    IF j = i
                    THEN [tasks[i] EXCEPT
                            !.pc = IF mw.raised THEN "failed" ELSE "screened",
                            !.ctx = mw.ctx, !.raised = mw.raised, !.at = {now}]
                    ELSE IF tasks[j].pc = "screened"
                    THEN [tasks[j] EXCEPT !.ctx = mw.ctx]
                    ELSE tasks[j]]
    /\ UNCHANGED <<now, users, nextId, posts, tags, held, req, ctx, raised, resp,
                   published, subscribers, cache, lastSet>>

\* jwt_middleware(request) on request i: it has no await, reads the path
\* and the Authorization header of its request and the clock, and writes
\* request.ctx.user of its request
MiddlewareRuns(i) ==
    LET mw == jwt_middleware(tasks[i].path, tasks[i].header, now) IN
    /\ tasks[i].pc = "arrived"
    /\ tasks' = [tasks EXCEPT
                    ![i] = [@ EXCEPT
                              !.pc = IF mw.raised THEN "failed" ELSE "screened",
                              !.ctx = mw.ctx, !.raised = mw.raised, !.at = {now}]]
    /\ UNCHANGED <<now, users, nextId, posts, tags, held, req, ctx, raised, resp,
                   published, subscribers, cache, lastSet>>

\* the route handler of request i reads request.ctx of its request
HandlerReads(i) ==
    /\ tasks[i].pc = "screened"
    /\ tasks' = [tasks EXCEPT
                    ![i] = [@ EXCEPT !.pc = "handled", !.seen = {tasks[i].ctx}]]
    /\ UNCHANGED <<now, users, nextId, posts, tags, held, req, ctx, raised, resp,
                   published, subscribers, cache, lastSet>>

\* ---- apps/auth/routes.py: register, query by query --------------------
\* a register request that has arrived, with a body UserCreate accepts
Registering(username, email, password) ==
    [pc |-> "arrived", username |-> username, email |-> email,
     password |-> password, resp |-> NoResponse]

\* `await User.filter(username=...).first()`: a row found is truthy, the
\* `or` stops there and the handler answers 400
RegisterFindsUsername(i) ==
    LET found == ByUsername(users, tasks[i].username) # {} IN
    /\ tasks[i].pc = "arrived"
    /\ tasks' = [tasks EXCEPT
                    ![i] = IF found
                           THEN [@ EXCEPT !.pc = "done",
                                   !.resp = Response(400, "Username or email already exists",
                                                     {}, {}, TRUE)]
                           ELSE [@ EXCEPT !.pc = "username_free"]]
    /\ UNCHANGED <<now, users, nextId, posts, tags, held, req, ctx, raised, resp,
                   published, subscribers, cache, lastSet>>

\* `or await User.filter(email=...).first()`
RegisterFindsEmail(i) ==
    LET found == ByEmail(users, tasks[i].email) # {} IN
    /\ tasks[i].pc = "username_free"
    /\ tasks' = [tasks EXCEPT
                    ![i] = IF found
                           THEN [@ EXCEPT !.pc = "done",
                                   !.resp = Response(400, "Username or email already exists",
                                                     {}, {}, TRUE)]
                           ELSE [@ EXCEPT !.pc = "free"]]
    /\ UNCHANGED <<now, users, nextId, posts, tags, held, req, ctx, raised, resp,
                   published, subscribers, cache, lastSet>>

\* `await User.create(...)`: the table's unique constraints on username
\* and email refuse the row if either is taken by now, and the
\* IntegrityError is not caught; else the row is inserted and the tokens
\* are issued
RegisterCreates(i) ==
    LET taken == \/ ByUsername(users, tasks[i].username) # {}
                 \/ ByEmail(users, tasks[i].email) # {}
    IN
    /\ tasks[i].pc = "free"
    /\ IF taken
       THEN /\ tasks' = [tasks EXCEPT
                           ![i] = [@ EXCEPT !.pc = "done", !.resp = ServerError(TRUE)]]
            /\ UNCHANGED <<users, nextId>>
       ELSE /\ users' = users \cup
                 {[id |-> nextId, username |-> tasks[i].username,
                   email |-> tasks[i].email,
                   password_hash |-> get_password_hash(tasks[i].password, "s1")]}
            /\ nextId' = nextId + 1
            /\ tasks' = [tasks EXCEPT
                           ![i] = [@ EXCEPT !.pc = "done",
                                     !.resp = Response(200, "",
                                                 {create_access_token(nextId, now)},
                                                 {create_refresh_token(nextId, now)},
                                                 TRUE)]]
    /\ UNCHANGED <<now, posts, tags, held, req, ctx, raised, resp,
                   published, subscribers, cache, lastSet>>

\* ---- core/pagination.py: paginate_queryset, query by query -----------
\* paginate_queryset with `await queryset.count()` answered on the rows
\* `counted` and `await queryset.offset(skip).limit(page_size)` on the rows
\* `fetched`
paginate_queryset_at(counted, fetched, params, transform_func) ==
    LET total_items == Len(counted)
        total_pages == ceil_div(total_items, params.page_size)
        skip == (params.page - 1) * params.page_size
        items == OffsetLimit(fetched, skip, params.page_size)
    IN [items |-> [i \in 1 .. Len(items) |-> Transformed(transform_func, items[i])],
        page_info |-> [total_items |-> total_items,
                       total_pages |-> total_pages,
                       current_page |-> params.page,
                       page_size |-> params.page_size,
                       has_next |-> params.page < total_pages,
                       has_previous |-> params.page > 1]]

\* the one call of paginate_queryset followed query by query
Listers == {"a"}

\* a call paginate_queryset(Tag.all(), params) that has started
Paginating(params) ==
    [pc |-> "arrived", params |-> params, counted |-> {}, result |-> {}]

\* `total_items = await queryset.count()`
PaginateCounts(i) ==
    /\ tasks[i].pc = "arrived"
    /\ tasks' = [tasks EXCEPT
                    ![i] = [@ EXCEPT !.pc = "counted", !.counted = {Table(tags)}]]
    /\ UNCHANGED <<now, users, nextId, posts, tags, held, req, ctx, raised, resp,
                   published, subscribers, cache, lastSet>>

\* `items = await queryset.offset(skip).limit(params.page_size)` and the
\* response built from it and from the count made before
PaginateFetches(i) ==
    /\ tasks[i].pc = "counted"
    /\ tasks' = [tasks EXCEPT
                    ![i] = [@ EXCEPT
                              !.pc = "done",
                              !.result = {paginate_queryset_at(c, Table(tags),
                                              tasks[i].params, "none") :
                                          c \in tasks[i].counted}]]
    /\ UNCHANGED <<now, users, nextId, posts, tags, held, req, ctx, raised, resp,
                   published, subscribers, cache, lastSet>>

\* ---- core/events.py: EventBus.publish --------------------------------
\* publish(event_type, data) on the subscribers subs: the callbacks of the
\* type are taken in order, a plain function is called at once, a coroutine
\* function is called and its coroutine awaited with the others in one
\* asyncio.gather at the end; nothing a callback raises is caught.  The
\* result: whether publish raised, and the positions of the callbacks run.
publish(subs, event_type) ==
    LET callbacks == subs[event_type]
        failing == {i \in DOMAIN callbacks :
                       callbacks[i].kind = "sync" /\ callbacks[i].raises}
        first == CHOOSE i \in failing : \A j \in failing : i <= j
    IN IF failing # {}
       THEN [raised |-> TRUE,
             ran |-> {i \in DOMAIN callbacks :
                         callbacks[i].kind = "sync" /\ i <= first}]
       ELSE [raised |-> \E i \in DOMAIN callbacks : callbacks[i].raises,
             ran |-> DOMAIN callbacks]

\* ---- services/post_service.py, services/tag_service.py -----------------
\* a call of a service method: event_bus tells whether the instance called
\* was built with the event bus (app.py) or without one (tags.py)
ServiceCall(op, call, event_bus, user_id, id, title, name, tag_ids) ==
    [op |-> op, call |-> call, event_bus |-> event_bus, user_id |-> user_id,
     id |-> id, title |-> title, name |-> name, tag_ids |-> tag_ids]

\* `if self.event_bus: await self.event_bus.publish(event_type, data)`
Notified(event_bus, event_type, data) ==
    IF event_bus THEN <<Event(event_type, data)>> ELSE <<>>
NotifyRaises(event_bus, event_type) ==
    event_bus /\ publish(subscribers, event_type).raised

\* PostService.create_post(user_id, post_data), under @atomic(): what it
\* wrote is rolled back when it raises
PostService_create_post(event_bus, user_id, title, tag_ids) ==
    LET user == ById(users, user_id)
        valid_tags == {t.id : t \in tags} \cap UNION tag_ids
        post == [id |-> NextKey(posts), title |-> title,
                 author_id |-> user_id, tags |-> valid_tags]
        failed == NotifyRaises(event_bus, "POST_CREATED")
    IN
    /\ req' = ServiceCall("create_post", "create_post", event_bus, user_id, 0,
                          {title}, "", tag_ids)
    /\ ctx' = CtxUnset
    /\ IF user = {}
       THEN raised' = TRUE /\ resp' = NoResponse /\ published' = <<>>
            /\ UNCHANGED posts
       ELSE /\ published' = Notified(event_bus, "POST_CREATED", post.id)
            /\ raised' = failed
            /\ resp' = IF failed THEN NoResponse ELSE Returned({post})
            /\ posts' = IF failed THEN posts ELSE posts \cup {post}
    /\ UNCHANGED <<now, users, nextId, tags, held, subscribers, cache, lastSet, tasks>>

\* PostService.update_post(post_id, user_id, post_data), under @atomic()
PostService_update_post(event_bus, post_id, user_id, title, tag_ids) ==
    LET post == {x \in posts : x.id = post_id /\ x.author_id = user_id}
        written(x) ==
            [x EXCEPT !.title = IF title = {} THEN @
                                ELSE CHOOSE v \in title : TRUE,
                      !.tags = IF tag_ids = {} THEN @
                               ELSE {t.id : t \in tags} \cap UNION tag_ids]
        failed == NotifyRaises(event_bus, "POST_UPDATED")
    IN
    /\ req' = ServiceCall("update_post", "update_post", event_bus, user_id,
                          post_id, title, "", tag_ids)
    /\ ctx' = CtxUnset
    /\ IF post = {}
       THEN raised' = FALSE /\ resp' = Returned({}) /\ published' = <<>>
            /\ UNCHANGED posts
       ELSE /\ published' = Notified(event_bus, "POST_UPDATED", post_id)
            /\ raised' = failed
            /\ resp' = IF failed THEN NoResponse
                       ELSE Returned({written(x) : x \in post})
            /\ posts' = IF failed THEN posts
                        ELSE (posts \ post) \cup {written(x) : x \in post}
    /\ UNCHANGED <<now, users, nextId, tags, held, subscribers, cache, lastSet, tasks>>

\* PostService.delete_post(post_id, user_id), under @atomic()
PostService_delete_post(event_bus, post_id, user_id) ==
    LET post == {x \in posts : x.id = post_id /\ x.author_id = user_id}
        failed == NotifyRaises(event_bus, "POST_DELETED")
    IN
    /\ req' = ServiceCall("delete_post", "delete_post", event_bus, user_id,
                          post_id, {}, "", {})
    /\ ctx' = CtxUnset
    /\ IF post = {}
       THEN raised' = FALSE /\ resp' = Returned(FALSE) /\ published' = <<>>
            /\ UNCHANGED posts
       ELSE /\ published' = Notified(event_bus, "POST_DELETED", post_id)
            /\ raised' = failed
            /\ resp' = IF failed THEN NoResponse ELSE Returned(TRUE)
            /\ posts' = IF failed THEN posts ELSE posts \ post
    /\ UNCHANGED <<now, users, nextId, tags, held, subscribers, cache, lastSet, tasks>>

\* TagService.create_tag(tag_data), under @atomic(): the tag of that name
\* is returned if there is one; else one is created and TAG_CREATED
\* published if the instance has an event bus
TagService_create_tag(event_bus, name) ==
    LET existing_tag == {t \in tags : t.name = name}
        tag == [id |-> NextKey(tags), name |-> name]
        failed == NotifyRaises(event_bus, "TAG_CREATED")
    IN
    /\ req' = ServiceCall("create_tag", "create_tag", event_bus, 0, 0, {}, name, {})
    /\ ctx' = CtxUnset
    /\ IF existing_tag # {}
       THEN raised' = FALSE /\ resp' = Returned(existing_tag)
            /\ published' = <<>> /\ UNCHANGED tags
       ELSE /\ published' = Notified(event_bus, "TAG_CREATED", tag.id)
            /\ raised' = failed
            /\ resp' = IF failed THEN NoResponse ELSE Returned({tag})
            /\ tags' = IF failed THEN tags ELSE tags \cup {tag}
    /\ UNCHANGED <<now, users, nextId, posts, held, subscribers, cache, lastSet, tasks>>

\* TagService.update_tag(tag_id, tag_data), under @atomic()
TagService_update_tag(event_bus, tag_id, name) ==
    LET tag == {t \in tags : t.id = tag_id}
        failed == NotifyRaises(event_bus, "TAG_UPDATED")
    IN
    /\ req' = ServiceCall("update_tag", "update_tag", event_bus, 0, tag_id, {}, name, {})
    /\ ctx' = CtxUnset
    /\ IF tag = {}
       THEN raised' = FALSE /\ resp' = Returned({}) /\ published' = <<>>
            /\ UNCHANGED tags
       ELSE IF \E t \in tags : t.name = name /\ t.id # tag_id
       THEN raised' = TRUE /\ resp' = NoResponse /\ published' = <<>>
            /\ UNCHANGED tags
       ELSE /\ published' = Notified(event_bus, "TAG_UPDATED", tag_id)
            /\ raised' = failed
            /\ resp' = IF failed THEN NoResponse
                       ELSE Returned({[t EXCEPT !.name = name] : t \in tag})
            /\ tags' = IF failed THEN tags
                       ELSE (tags \ tag) \cup {[t EXCEPT !.name = name] : t \in tag}
    /\ UNCHANGED <<now, users, nextId, posts, held, subscribers, cache, lastSet, tasks>>

\* TagService.delete_tag(tag_id), under @atomic()
TagService_delete_tag(event_bus, tag_id) ==
    LET tag == {t \in tags : t.id = tag_id}
        failed == NotifyRaises(event_bus, "TAG_DELETED")
    IN
    /\ req' = ServiceCall("delete_tag", "delete_tag", event_bus, 0, tag_id, {}, "", {})
    /\ ctx' = CtxUnset
    /\ IF tag = {}
       THEN raised' = FALSE /\ resp' = Returned(FALSE) /\ published' = <<>>
            /\ UNCHANGED <<tags, posts>>
       ELSE /\ published' = Notified(event_bus, "TAG_DELETED", tag_id)
            /\ raised' = failed
            /\ resp' = IF failed THEN NoResponse ELSE Returned(TRUE)
            /\ tags' = IF failed THEN tags ELSE tags \ tag
            /\ posts' = IF failed THEN posts
                        ELSE {[x EXCEPT !.tags = @ \ {tag_id}] : x \in posts}
    /\ UNCHANGED <<now, users, nextId, held, subscribers, cache, lastSet, tasks>>

\* a service call that waits to be made
CreatePostCalled ==
    /\ req.op = "pending" /\ req.call = "create_post"
    /\ PostService_create_post(req.event_bus, req.user_id,
                               CHOOSE v \in req.title : TRUE, req.tag_ids)
UpdatePostCalled ==
    /\ req.op = "pending" /\ req.call = "update_post"
    /\ PostService_update_post(req.event_bus, req.id, req.user_id, req.title,
                               req.tag_ids)
DeletePostCalled ==
    /\ req.op = "pending" /\ req.call = "delete_post"
    /\ PostService_delete_post(req.event_bus, req.id, req.user_id)
CreateTagCalled ==
    /\ req.op = "pending" /\ req.call = "create_tag"
    /\ TagService_create_tag(req.event_bus, req.name)
UpdateTagCalled ==
    /\ req.op = "pending" /\ req.call = "update_tag"
    /\ TagService_update_tag(req.event_bus, req.id, req.name)
DeleteTagCalled ==
    /\ req.op = "pending" /\ req.call = "delete_tag"
    /\ TagService_delete_tag(req.event_bus, req.id)

\* the accounts alone: users register, log in, and are renamed, given a
\* new password or deleted, with no clock
NextAccounts ==
    \/ RegisterAny
    \/ LoginAny
    \/ Keep
    \/ UpdateCurrentUserHeld
    \/ ChangePasswordHeld
    \/ DeleteUser

SpecAccounts == Init /\ [][NextAccounts]_vars

\* token renewal alone: clients register or log in, keep a token and
\* exchange it at /auth/refresh as time passes
NextRenewal ==
    \/ Tick
    \/ RegisterAny
    \/ LoginAny
    \/ Keep
    \/ RefreshHeld

SpecRenewal == Init /\ [][NextRenewal]_vars

\* any inbound request, whatever its path and Authorization header, at
\* any time: the request is drawn first and the middleware then runs on it
InitInbound ==
    /\ now \in 0 .. MaxTime
    /\ users = {}
    /\ nextId = 1
    /\ posts = {}
    /\ tags = {}
    /\ held = {}
    /\ req \in {Pending(path, header) : path \in Paths, header \in Headers}
    /\ ctx = CtxUnset
    /\ raised = FALSE
    /\ resp = NoResponse
    /\ published = <<>>
    /\ subscribers = AppSubscribers
    /\ cache = EmptyCache
    /\ lastSet = EmptyCache
    /\ tasks = <<>>

NextInbound == InboundPending

SpecInbound == InitInbound /\ [][NextInbound]_vars

\* any call of create_token, at any time, followed by decode_token
InitIssue ==
    /\ now \in 0 .. MaxTime
    /\ users = {}
    /\ nextId = 1
    /\ posts = {}
    /\ tags = {}
    /\ held = {}
    /\ req \in {IssueCall("pending", s, d, r, {}) :
                   s \in Subjects, d \in Opt(Durations), r \in BOOLEAN}
    /\ ctx = CtxUnset
    /\ raised = FALSE
    /\ resp = NoResponse
    /\ published = <<>>
    /\ subscribers = AppSubscribers
    /\ cache = EmptyCache
    /\ lastSet = EmptyCache
    /\ tasks = <<>>

NextIssue == CreateToken \/ DecodeToken

SpecIssue == InitIssue /\ [][NextIssue]_vars

\* any call of paginate_queryset with parameters PaginationParams accepts
InitPaginate ==
    /\ now = 0
    /\ users = {}
    /\ nextId = 1
    /\ posts = {}
    /\ tags = {}
    /\ held = {}
    /\ req \in {PaginateCall("pending", q, page, page_size, f) :
                   q \in Querysets, page \in Pages, page_size \in PageSizes,
                   f \in TransformFuncs}
    /\ ctx = CtxUnset
    /\ raised = FALSE
    /\ resp = NoResponse
    /\ published = <<>>
    /\ subscribers = AppSubscribers
    /\ cache = EmptyCache
    /\ lastSet = EmptyCache
    /\ tasks = <<>>

NextPaginate == Paginate

SpecPaginate == InitPaginate /\ [][NextPaginate]_vars

\* the requests enumerated for the protected handlers of api_v1
PostIds == {x.id : x \in PostRows}
TagIds == {t.id : t \in TagRows}
TagIdLists == {{}, {TagIds}}
ProtectedCalls(t) ==
    LET H == ClientHeaders(t) IN
    {ApiCall("create_post", h, 0, {ti}, "", tg, {}, {}, {}, {}) :
        h \in H, ti \in Titles, tg \in TagIdLists}
    \cup {ApiCall("update_post", h, i, ti, "", tg, {}, {}, {}, {}) :
        h \in H, i \in PostIds, ti \in {{}, {"t2"}}, tg \in TagIdLists}
    \cup {ApiCall("delete_post", h, i, {}, "", {}, {}, {}, {}, {}) :
        h \in H, i \in PostIds}
    \cup {ApiCall("create_tag", h, 0, {}, n, {}, {}, {}, {}, {}) :
        h \in H, n \in TagNames}
    \cup {ApiCall("update_tag", h, i, {}, n, {}, {}, {}, {}, {}) :
        h \in H, i \in TagIds, n \in TagNames}
    \cup {ApiCall("delete_tag", h, i, {}, "", {}, {}, {}, {}, {}) :
        h \in H, i \in TagIds}
    \cup {ApiCall("get_users", h, 0, {}, "", {}, {}, {}, {}, {}) : h \in H}
    \cup {ApiCall("get_current_user", h, 0, {}, "", {}, {}, {}, {}, {}) : h \in H}
    \cup {ApiCall("update_current_user", h, 0, {}, "", {}, u, {}, {}, {}) :
        h \in H, u \in Opt(Usernames)}

\* any request to a protected handler, at any time, from a client that
\* sends no header, a broken one, or a token it was issued
InitProtected ==
    /\ now \in 0 .. MaxTime
    /\ users = TwoUsers
    /\ nextId = 1 + Cardinality(TwoUsers)
    /\ \E st \in Stores : posts = st.posts /\ tags = st.tags
    /\ held = {}
    /\ req \in ProtectedCalls(now)
    /\ ctx = CtxUnset
    /\ raised = FALSE
    /\ resp = NoResponse
    /\ published = <<>>
    /\ subscribers = AppSubscribers
    /\ cache = EmptyCache
    /\ lastSet = EmptyCache
    /\ tasks = <<>>

NextProtected ==
    \/ CreatePost
    \/ UpdatePost
    \/ DeletePost
    \/ CreateTag
    \/ UpdateTag
    \/ DeleteTag
    \/ GetUsers
    \/ GetCurrentUser
    \/ UpdateCurrentUserPending

SpecProtected == InitProtected /\ [][NextProtected]_vars

\* the integers sent as page and page_size
QueryInts == {0 - 1, 0, 1, 2, DEFAULT_PAGE_SIZE, PAGE_SIZE_LIMIT, PAGE_SIZE_LIMIT + 1}

\* the requests enumerated for the list endpoints of api_v1
ListCalls(t) ==
    LET H == {NoHeader, Bearer(create_access_token(1, t))}
        A == Opt(QueryInts)
    IN
    {ApiCall(f, h, 0, {}, "", {}, {}, {}, page, page_size) :
        f \in {"get_users", "get_tags", "get_posts"}, h \in H,
        page \in A, page_size \in A}
    \cup {ApiCall("get_tag_posts", h, i, {}, "", {}, {}, {}, page, page_size) :
        h \in H, i \in TagIds, page \in A, page_size \in A}

\* any request to a list endpoint, with any page and page_size
InitList ==
    /\ now = 0
    /\ users = TwoUsers
    /\ nextId = 1 + Cardinality(TwoUsers)
    /\ \E st \in Stores : posts = st.posts /\ tags = st.tags
    /\ held = {}
    /\ req \in ListCalls(now)
    /\ ctx = CtxUnset
    /\ raised = FALSE
    /\ resp = NoResponse
    /\ published = <<>>
    /\ subscribers = AppSubscribers
    /\ cache = EmptyCache
    /\ lastSet = EmptyCache
    /\ tasks = <<>>

NextList ==
    \/ GetUsers
    \/ GetTags
    \/ GetTagPosts
    \/ GetPosts

SpecList == InitList /\ [][NextList]_vars

\* any token string sent to /auth/refresh, at any time: the request is
\* drawn first and the handler then runs on it
InitRefresh ==
    /\ now \in 0 .. MaxTime
    /\ users = {}
    /\ nextId = 1
    /\ posts = {}
    /\ tags = {}
    /\ held = {}
    /\ req \in {PendingRefresh(token) : token \in Opt(TokenStrings)}
    /\ ctx = CtxUnset
    /\ raised = FALSE
    /\ resp = NoResponse
    /\ published = <<>>
    /\ subscribers = AppSubscribers
    /\ cache = EmptyCache
    /\ lastSet = EmptyCache
    /\ tasks = <<>>

NextRefresh == RefreshPending

SpecRefresh == InitRefresh /\ [][NextRefresh]_vars

\* callers of the cache and its cleaner task, in any order, as time passes
NextCache ==
    \/ Tick
    \/ CacheSetAny
    \/ CacheGetAny
    \/ CacheDeleteAny
    \/ CacheClear
    \/ CleanExpired

SpecCache == Init /\ [][NextCache]_vars

\* two requests in progress at once, each with any path and header, the
\* middleware and the handlers running in any order as time passes
TaskHeaders ==
    {NoHeader} \cup {Bearer(create_access_token(u.id, 0)) : u \in TwoUsers}

InitRequests ==
    /\ now = 0
    /\ users = TwoUsers
    /\ nextId = 1 + Cardinality(TwoUsers)
    /\ posts = {}
    /\ tags = {}
    /\ held = {}
    /\ req = Request("none", "/", NoHeader, {}, {}, {}, {})
    /\ ctx = CtxUnset
    /\ raised = FALSE
    /\ resp = NoResponse
    /\ published = <<>>
    /\ subscribers = AppSubscribers
    /\ cache = EmptyCache
    /\ lastSet = EmptyCache
    /\ tasks \in [Tasks -> {Arrived(path, header) :
                      path \in {"/", "/api/v1/posts"}, header \in TaskHeaders}]

NextRequests ==
    \/ Tick
    \/ \E i \in Tasks : MiddlewareRuns(i)
    \/ \E i \in Tasks : HandlerReads(i)

SpecRequests == InitRequests /\ [][NextRequests]_vars

\* two register requests in progress at once on an empty users table, the
\* queries of the two in any order
InitRegisterRace ==
    /\ now = 0
    /\ users = {}
    /\ nextId = 1
    /\ posts = {}
    /\ tags = {}
    /\ held = {}
    /\ req = Request("none", "/", NoHeader, {}, {}, {}, {})
    /\ ctx = CtxUnset
    /\ raised = FALSE
    /\ resp = NoResponse
    /\ published = <<>>
    /\ subscribers = AppSubscribers
    /\ cache = EmptyCache
    /\ lastSet = EmptyCache
    /\ tasks \in [Tasks -> {Registering(username, email, password) :
                      username \in Usernames, email \in Emails,
                      password \in Passwords}]

NextRegisterRace ==
    \/ \E i \in Tasks : RegisterFindsUsername(i)
    \/ \E i \in Tasks : RegisterFindsEmail(i)
    \/ \E i \in Tasks : RegisterCreates(i)

SpecRegisterRace == InitRegisterRace /\ [][NextRegisterRace]_vars

\* one listing of the tags in progress while other requests create and
\* delete tags through the tags blueprint's service
CreateTagRequested ==
    \E name \in TagNames : TagService_create_tag(FALSE, name)
DeleteTagRequested ==
    \E tag_id \in TagIds : TagService_delete_tag(FALSE, tag_id)

InitPaginateRace ==
    /\ now = 0
    /\ users = TwoUsers
    /\ nextId = 1 + Cardinality(TwoUsers)
    /\ posts = {}
    /\ tags \in SUBSET TagRows
    /\ held = {}
    /\ req = Request("none", "/", NoHeader, {}, {}, {}, {})
    /\ ctx = CtxUnset
    /\ raised = FALSE
    /\ resp = NoResponse
    /\ published = <<>>
    /\ subscribers = AppSubscribers
    /\ cache = EmptyCache
    /\ lastSet = EmptyCache
    /\ tasks \in [Listers -> {Paginating(PaginationParams(page, page_size)) :
                      page \in 1 .. 2, page_size \in 1 .. 2}]

NextPaginateRace ==
    \/ \E i \in Listers : PaginateCounts(i)
    \/ \E i \in Listers : PaginateFetches(i)
    \/ CreateTagRequested
    \/ DeleteTagRequested

SpecPaginateRace == InitPaginateRace /\ [][NextPaginateRace]_vars

\* the subscribers enumerated: for every event type the same list of up to
\* MaxCallbacks callbacks, each a plain or a coroutine function that
\* returns or raises
Callbacks == {Callback(kind, raises) : kind \in {"sync", "async"}, raises \in BOOLEAN}
CallbackLists == UNION {[1 .. n -> Callbacks] : n \in 0 .. MaxCallbacks}
SubscriberSets == {[e \in EventTypes |-> L] : L \in CallbackLists}

\* the service calls enumerated, on an instance with or without event bus
ServiceCalls ==
    {ServiceCall("pending", "create_post", b, u, 0, {"t1"}, "", tg) :
        b \in BOOLEAN, u \in 1 .. 3, tg \in TagIdLists}
    \cup {ServiceCall("pending", "update_post", b, u, i, ti, "", tg) :
        b \in BOOLEAN, u \in 1 .. 2, i \in PostIds, ti \in {{}, {"t2"}},
        tg \in TagIdLists}
    \cup {ServiceCall("pending", "delete_post", b, u, i, {}, "", {}) :
        b \in BOOLEAN, u \in 1 .. 2, i \in PostIds}
    \cup {ServiceCall("pending", "create_tag", b, 0, 0, {}, n, {}) :
        b \in BOOLEAN, n \in TagNames}
    \cup {ServiceCall("pending", "update_tag", b, 0, i, {}, n, {}) :
        b \in BOOLEAN, i \in TagIds, n \in TagNames}
    \cup {ServiceCall("pending", "delete_tag", b, 0, i, {}, "", {}) :
        b \in BOOLEAN, i \in TagIds}

\* any call of a writing method of PostService or TagService, on any store
\* and with any subscribers
InitServices ==
    /\ now = 0
    /\ users = TwoUsers
    /\ nextId = 1 + Cardinality(TwoUsers)
    /\ \E st \in Stores : posts = st.posts /\ tags = st.tags
    /\ held = {}
    /\ req \in ServiceCalls
    /\ ctx = CtxUnset
    /\ raised = FALSE
    /\ resp = NoResponse
    /\ published = <<>>
    /\ subscribers \in SubscriberSets
    /\ cache = EmptyCache
    /\ lastSet = EmptyCache
    /\ tasks = <<>>

NextServices ==
    \/ CreatePostCalled
    \/ UpdatePostCalled
    \/ DeletePostCalled
    \/ CreateTagCalled
    \/ UpdateTagCalled
    \/ DeleteTagCalled

SpecServices == InitServices /\ [][NextServices]_vars

\* TagService.create_tag called again and again, one call after the other,
\* on the instance of tags.py or on the one of app.py
ServiceTagNames == TagNames \cup {"asyncio", "orm"}

CreateTagAny ==
    \E event_bus \in BOOLEAN, name \in ServiceTagNames :
        TagService_create_tag(event_bus, name)

NextTagService == CreateTagAny

SpecTagService == Init /\ [][NextTagService]_vars


\* ---- properties of the middleware --------------------------------------
\* the last request went through jwt_middleware on a path that is not public
Screened ==
    /\ req.op \in {"inbound", "update_current_user", "update_user"}
    /\ req.path \notin PUBLIC_PATHS

\* a token string that is a JWT signed with the configured secret and algorithm
WellSigned(k) == k.form = "jwt" /\ k.alg = JWT_ALGORITHM /\ k.key = JWT_SECRET

\* C1: for every inbound request, whatever its path, header and token
\* payload, jwt_middleware completes without raising.
C1_MiddlewareNeverRaises == req.op = "inbound" => ~raised

\* C2: on a non-public path the identity is resolved(s) exactly when the
\* header is `Bearer ` followed by a token that verifies, whose exp is later
\* than the clock and whose sub is s; in every other case request.ctx.user
\* is None.
C2_ResolvedIffValidBearer ==
    (req.op = "inbound" /\ req.path \notin PUBLIC_PATHS) =>
        LET h == req.header
            k == h.token
            valid == /\ h.present
                     /\ h.parts = <<"Bearer ">>
                     /\ WellSigned(k)
                     /\ \E e \in k.exp : e > now
                     /\ k.sub # {}
        IN IF valid THEN \E s \in k.sub : s \in NumericStrings /\ ctx = CtxUser({int(s)})
                    ELSE ctx = CtxUser({})

\* C3: on a public path the middleware sets the identity to anonymous, so
\* request.ctx.user is defined (None) whatever header was sent.
C3_PublicPathAnonymous ==
    (req.op = "inbound" /\ req.path \in PUBLIC_PATHS) => ctx = CtxUser({})

\* C4: a refresh token presented as the Bearer token of a request to a
\* protected route never yields a resolved identity.
C4_RefreshTokenNeverResolves ==
    (Screened /\ req.header.present /\ req.header.token.refresh # {}) =>
        (ctx.assigned /\ ctx.user = {})


\* ---- properties of /auth/refresh ---------------------------------------
\* the last request was a POST /auth/refresh that supplied the token string k
RefreshOf(k) == req.op = "refresh" /\ req.token = {k} /\ k # EmptyString

InvalidRefreshToken == Response(401, "Invalid refresh token", {}, {}, FALSE)

\* C5: /auth/refresh answers 401 and issues no token whenever the supplied
\* token fails signature or structure verification, has an exp in the past,
\* or lacks the refresh marker; the response is the same in the three cases.
C5_RefreshRejects ==
    \A k \in req.token :
        (/\ RefreshOf(k)
         /\ \/ ~WellSigned(k)
            \/ \E e \in k.exp : e < now
            \/ k.refresh = {})
        => resp = InvalidRefreshToken

\* C5 witness: a well-signed token that carries the refresh marker and a
\* numeric sub was refused because its exp had passed.
C5_Witness ==
    \E k \in req.token :
        /\ RefreshOf(k) /\ WellSigned(k) /\ k.refresh = {TRUE}
        /\ k.sub = {"1"}
        /\ \E e \in k.exp : e < now
        /\ resp = InvalidRefreshToken

\* C6: when /auth/refresh succeeds on a token whose subject is s, it returns
\* one access token (no refresh marker) for the same subject and no refresh
\* token, and /auth/refresh refuses the returned token at any time.
C6_RefreshIssuesAccessToken ==
    \A k \in req.token :
        (RefreshOf(k) /\ resp.status = 200) =>
            /\ resp.refresh_token = {}
            /\ Cardinality(resp.access_token) = 1
            /\ \A a \in resp.access_token :
                  /\ WellSigned(a)
                  /\ a.refresh = {}
                  /\ \E s \in k.sub : s \in NumericStrings /\ a.sub = {str(int(s))}
                  /\ \A t \in 0 .. MaxTime :
                        refresh_token({a}, t) = InvalidRefreshToken

\* C6 witness: a refresh token for subject 2 was exchanged.
C6_Witness ==
    \E k \in req.token :
        /\ RefreshOf(k) /\ resp.status = 200 /\ k.refresh = {TRUE}
        /\ k.sub = {"2"}
        /\ \E a \in resp.access_token : a.sub = {"2"}

C8_NoRevocation ==
    /\ (Screened /\ req.header.present) =>
          LET k == req.header.token IN
          (\E e \in k.exp : now < e) =>
              \E s \in k.sub : ctx = CtxUser({int(s)})
    /\ \A k \in req.token :
          (RefreshOf(k) /\ k.refresh # {} /\ \E e \in k.exp : now < e) =>
              /\ resp.status = 200
              /\ \E a \in resp.access_token : a.sub = k.sub /\ a.refresh = {}

\* C8 witness: user 1 has been deleted and a request carrying a token
\* issued to user 1 was resolved to identity 1 all the same.
C8_Witness ==
    /\ req.op = "inbound" /\ req.path \notin PUBLIC_PATHS
    /\ req.header.present /\ req.header.token.sub = {"1"}
    /\ ctx = CtxUser({1})
    /\ ById(users, 1) = {}

\* ---- properties of /auth/login -----------------------------------------
\* a step of the login handler
LoginStep == req'.op = "login" /\ <<req, resp>>' # <<req, resp>>

InvalidCredentials == Response(401, "Invalid username or password", {}, {}, TRUE)

\* the rows of U that the credentials authenticate
Authenticated(U, username, password) ==
    {u \in U : /\ u.username \in username
               /\ \E p \in password : verify_password(p, u.password_hash)}

\* C9: a login whose password matches no user of that name gets one and the
\* same 401 response whether or not the username exists, and changes no
\* state.
C9_UniformLoginFailure ==
    [][(/\ LoginStep
        /\ ~Falsy(req'.username) /\ ~Falsy(req'.password)
        /\ Authenticated(users, req'.username, req'.password) = {})
       => (/\ resp' = InvalidCredentials
           /\ UNCHANGED <<now, users, nextId, posts, tags, held>>)]_vars

\* C9 witness: a login with an existing username and a wrong password was
\* refused.
C9_Witness ==
    /\ req.op = "login" /\ resp = InvalidCredentials
    /\ \E n \in req.username : ByUsername(users, n) # {}

\* C10: /auth/login answers 400 without a lookup when username or password
\* is missing or empty, 401 when the credentials authenticate nobody, and
\* otherwise the envelope whose two tokens carry the authenticated user's id.
\* (Every step that changes the users table also replaces req, so while the
\* last request is a login the table is the one the login saw.)
C10_LoginOutcomes ==
    req.op = "login" =>
        LET who == Authenticated(users, req.username, req.password) IN
        IF Falsy(req.username) \/ Falsy(req.password)
        THEN resp = Response(400, "Please provide username and password",
                             {}, {}, FALSE)
        ELSE IF who = {}
        THEN /\ resp.status = 401
             /\ resp.access_token = {} /\ resp.refresh_token = {}
        ELSE /\ resp.status = 200
             /\ \E u \in who :
                   /\ \E a \in resp.access_token :
                         WellSigned(a) /\ a.sub = {str(u.id)} /\ a.refresh = {}
                   /\ \E r \in resp.refresh_token :
                         WellSigned(r) /\ r.sub = {str(u.id)} /\ r.refresh = {TRUE}

\* C10 witness: the second registered user logged in and got tokens for id 2.
C10_Witness ==
    /\ req.op = "login" /\ resp.status = 200
    /\ \E a \in resp.access_token : a.sub = {"2"}
    /\ \E r \in resp.refresh_token : r.sub = {"2"}
    /\ Cardinality(users) = 2

\* ---- properties of /auth/register --------------------------------------
\* a step of the register handler
RegisterStep == req'.op = "register" /\ <<req, resp>>' # <<req, resp>>

DuplicateUser == Response(400, "Username or email already exists", {}, {}, TRUE)

\* C11: a register whose username or email a user already has is answered
\* 400 with the duplicate error, creates no user, issues no token and leaves
\* every row of the users table as it was.
C11_DuplicateRegisterRejected ==
    [][(/\ RegisterStep
        /\ \/ \E n \in req'.username : ByUsername(users, n) # {}
           \/ \E e \in req'.email : ByEmail(users, e) # {})
       => (/\ resp' = DuplicateUser
           /\ resp'.access_token = {} /\ resp'.refresh_token = {}
           /\ UNCHANGED <<users, nextId, posts, tags, held>>)]_vars

\* C11 witness: alice is registered, and a second register of alice under
\* another email was refused.
C11_Witness ==
    /\ req.op = "register" /\ resp = DuplicateUser
    /\ req.username = {"alice"}
    /\ \E u \in ByUsername(users, "alice") : u.email \notin req.email

\* login(u, p) on the table U at time t succeeds for user id i, and
\* login(u, p2) is refused with 401 for every other password p2
LoginOnlyWith(U, u, p, i, t) ==
    /\ LET r == login(U, {u}, {p}, t) IN
          /\ r.status = 200
          /\ \A a \in r.access_token : a.sub = {str(i)}
          /\ \A k \in r.refresh_token : k.sub = {str(i)}
    /\ \A p2 \in Passwords \ {p} : login(U, {u}, {p2}, t).status = 401

\* a successful register stores hash(p), a bcrypt record that verifies p
\* and no other password, and login(u, p) then succeeds for the new id
RegisterStoresHash ==
    (RegisterStep /\ resp'.status = 200) =>
        \E n \in req'.username, p \in req'.password, x \in users' \ users :
            /\ users' = users \cup {x}
            /\ x.username = n
            /\ \E salt \in Salts : x.password_hash = get_password_hash(p, salt)
            /\ x.password_hash.scheme = "bcrypt"
            /\ \A q \in Passwords : verify_password(q, x.password_hash) <=> q = p
            /\ \A a \in resp'.access_token : a.sub = {str(x.id)}
            /\ LoginOnlyWith(users', n, p, x.id, now')

\* C12 as claimed: after a successful register(u, p) the stored credential
\* is hash(p), and as long as the user's credential is not changed a later
\* login(u, p) succeeds for the same user id while login(u, p2) with another
\* password is refused with 401.
C12_LoginWhileCredentialUnchanged ==
    [][/\ RegisterStoresHash
       /\ \/ <<users, now>>' = <<users, now>>
          \/ \A x \in users, p \in Passwords :
             (/\ LoginOnlyWith(users, x.username, p, x.id, now)
              /\ \A y \in ById(users', x.id) : y.password_hash = x.password_hash)
             => LoginOnlyWith(users', x.username, p, x.id, now')]_vars

\* C12 as amended: the same, as long as the user's row still exists under
\* the username u with its credential unchanged.
C12_LoginWhileRowUnchanged ==
    [][/\ RegisterStoresHash
       /\ \/ <<users, now>>' = <<users, now>>
          \/ \A x \in users, p \in Passwords :
             (/\ LoginOnlyWith(users, x.username, p, x.id, now)
              /\ \E y \in ById(users', x.id) :
                    /\ y.username = x.username
                    /\ y.password_hash = x.password_hash)
             => LoginOnlyWith(users', x.username, p, x.id, now')]_vars

\* C12 witness: alice registered with pw1 as user 1, a second user has
\* registered since, and login(alice, pw1) succeeded for id 1.
C12_Witness ==
    /\ req.op = "login" /\ req.username = {"alice"} /\ req.password = {"pw1"}
    /\ resp.status = 200
    /\ \A a \in resp.access_token : a.sub = {"1"}
    /\ Cardinality(users) = 2
    /\ \E x \in ById(users, 1) :
          x.username = "alice" /\ \E salt \in Salts :
              x.password_hash = get_password_hash("pw1", salt)

\* ---- properties of refreshed tokens -----------------------------------
\* a step of the refresh handler
RefreshStep == req'.op = "refresh" /\ <<req, resp>>' # <<req, resp>>

\* C14: with a clock that never runs backwards, the access token returned
\* by /auth/refresh expires no earlier than the access token that register
\* or login returned together with the refresh token presented.  (The
\* envelope is the response still standing when the refresh is made.)
C14_RefreshedExpNotEarlier ==
    [][(/\ RefreshStep
        /\ resp.status = 200 /\ resp.refresh_token # {}
        /\ req'.token = resp.refresh_token
        /\ resp'.status = 200)
       => \A a \in resp.access_token, b \in resp'.access_token :
             \E e \in a.exp, f \in b.exp : f >= e]_vars

\* C14 witness: the refresh token issued at time 0 was exchanged at time 1
\* for an access token that expires later than the first one did.
C14_Witness ==
    /\ req.op = "refresh" /\ resp.status = 200
    /\ \E k \in req.token :
          /\ k = create_refresh_token(1, 0)
          /\ resp.access_token = {create_access_token(1, 1)}
          /\ \E e \in create_access_token(1, 0).exp,
                f \in create_access_token(1, 1).exp : f > e

\* ---- properties of create_token and decode_token ----------------------
\* the duration passed to the last create_token call is negative
NegativeDuration == \E d \in req.expires_delta : d < 0

C16_ExpIsIssuePlusDuration ==
    req.op \in {"create_token", "decode_token"} =>
        \A k \in req.token :
            k.exp = IF req.expires_delta = {}
                    THEN {now + (IF req.is_refresh THEN JWT_REFRESH_TOKEN_EXPIRES
                                                   ELSE JWT_ACCESS_TOKEN_EXPIRES)}
                    ELSE {now + d : d \in req.expires_delta}

\* ---- properties of paginate_queryset ----------------------------------
\* the last call was paginate_queryset and returned
Paginated == req.op = "paginate"

\* C17: every PageInfo returned for page >= 1, 1 <= page_size <= 100 and
\* any number of items satisfies has_next = (current_page < total_pages),
\* has_previous = (current_page > 1), total_pages = ceil(total_items /
\* page_size) (the least number of pages that hold the items), and
\* total_pages = 0 exactly when total_items = 0.
C17_PageInfoInvariants ==
    Paginated =>
        LET i == resp.value.page_info IN
        /\ i.total_items = Len(req.queryset)
        /\ i.current_page = req.page /\ i.page_size = req.page_size
        /\ i.has_next <=> (i.current_page < i.total_pages)
        /\ i.has_previous <=> (i.current_page > 1)
        /\ i.total_pages >= 0
        /\ i.total_pages * i.page_size >= i.total_items
        /\ (i.total_pages - 1) * i.page_size < i.total_items
        /\ (i.total_pages = 0) <=> (i.total_items = 0)

\* C17 witness: a middle page of a source whose last page is partial.
C17_Witness ==
    /\ Paginated /\ Len(req.queryset) = 7 /\ req.page_size = 3 /\ req.page = 2
    /\ resp.value.page_info.total_pages = 3
    /\ resp.value.page_info.has_next /\ resp.value.page_info.has_previous

\* C18: the items returned are exactly the items of the source at
\* positions skip .. skip + page_size - 1 (from 0), skip = (page - 1) *
\* page_size, in the order of the source, so their number is
\* min(page_size, max(0, N - skip)); a transform is applied item by item
\* and changes neither order nor number.
C18_WindowItems ==
    Paginated =>
        LET N == Len(req.queryset)
            skip == (req.page - 1) * req.page_size
            left == IF N - skip > 0 THEN N - skip ELSE 0
            count == IF req.page_size <= left THEN req.page_size ELSE left
            items == resp.value.items
        IN /\ Len(items) = count
           /\ \A k \in 1 .. count :
                 /\ items[k].id = req.queryset[skip + k].id
                 /\ items[k] = IF req.transform_func = "none"
                               THEN req.queryset[skip + k]
                               ELSE Dto(req.queryset[skip + k])

\* C18 witness: the partial last page of a source in descending order,
\* with a coroutine transform.
C18_Witness ==
    /\ Paginated /\ Len(req.queryset) = 7 /\ req.queryset[1].id = 7
    /\ req.page_size = 3 /\ req.page = 3 /\ req.transform_func = "async"
    /\ resp.value.items = <<Dto(Row(1))>>

\* C19: a page beyond total_pages gives no items, has_next false and the
\* true total_pages; an empty source gives total_pages 0, has_next false
\* and has_previous = (page > 1); with 25 items and page_size 10, page 1
\* has 10 items, no previous and a next page, page 3 has 5 items and no
\* next page, page 4 has no items, total_pages 3 and no next page.
C19_EdgeCases ==
    Paginated =>
        LET i == resp.value.page_info
            n == Len(resp.value.items)
        IN /\ req.page > i.total_pages =>
                 /\ resp.value.items = <<>> /\ ~i.has_next
                 /\ i.total_pages * req.page_size >= Len(req.queryset)
                 /\ (i.total_pages - 1) * req.page_size < Len(req.queryset)
           /\ req.queryset = <<>> =>
                 /\ i.total_pages = 0 /\ ~i.has_next
                 /\ i.has_previous <=> (req.page > 1)
           /\ (Len(req.queryset) = 25 /\ req.page_size = 10) =>
                 /\ req.page = 1 => (n = 10 /\ ~i.has_previous /\ i.has_next)
                 /\ req.page = 3 => (n = 5 /\ ~i.has_next)
                 /\ req.page = 4 => (n = 0 /\ i.total_pages = 3 /\ ~i.has_next)

\* C19 witness: page 4 of 25 items, ten to a page.
C19_Witness ==
    /\ Paginated /\ Len(req.queryset) = 25 /\ req.page_size = 10 /\ req.page = 4
    /\ resp.value.items = <<>> /\ resp.value.page_info.total_pages = 3
    /\ ~resp.value.page_info.has_next /\ resp.value.page_info.has_previous

\* ---- properties of the protected handlers ------------------------------
ProtectedOps ==
    {"create_post", "update_post", "delete_post", "create_tag", "update_tag",
     "delete_tag", "get_users", "get_current_user", "update_current_user"}

\* a step of a protected handler
ProtectedStep == req.op = "pending" /\ req'.op \in ProtectedOps

\* C13: a protected action (create, update, delete post; create, update,
\* delete tag; list users; get or update the current user) reads or changes
\* the store only when the request's identity is resolved; a request with
\* no header or an anonymous identity is answered 401 with the store left
\* as it was; and a request that carries an unexpired access token issued
\* by register or login passes the authentication check.
C13_ProtectedNeedIdentity ==
    [][ProtectedStep =>
        /\ (resp'.lookup \/ <<users, posts, tags>>' # <<users, posts, tags>>)
              => (ctx'.assigned /\ ~Anonymous(ctx'))
        /\ (~req'.header.present \/ (ctx'.assigned /\ Anonymous(ctx')))
              => /\ resp'.status = 401
                 /\ ~resp'.lookup
                 /\ UNCHANGED <<users, nextId, posts, tags>>
        /\ \A k \in IssuedAccessTokens(now) :
              (req'.header = Bearer(k) /\ \E e \in k.exp : now < e)
              => /\ resp'.status # 401
                 /\ \E n \in k.sub : ctx' = CtxUser({int(n)})]_vars

\* C13 witness: a DELETE of an existing tag sent without a header was
\* answered 401 and the tag is still there.
C13_Witness ==
    /\ req.op = "delete_tag" /\ ~req.header.present
    /\ resp = Unauthorized
    /\ \E t \in tags : t.id = req.id

\* ---- properties of the list endpoints ----------------------------------
ListOps == {"get_users", "get_tags", "get_tag_posts", "get_posts"}

\* C20: on every list endpoint, whatever integers are sent as page and
\* page_size, paginate_queryset is called only with page >= 1 and
\* 1 <= page_size <= 100 (page defaults to 1, page_size to 10 and is cut to
\* 100), and a request with page < 1 or page_size < 1 is rejected before
\* any count or fetch query.
C20_ListParamsValidated ==
    req.op \in ListOps =>
        /\ \A params \in resp.paginated :
              /\ params.page >= 1
              /\ params.page_size >= 1 /\ params.page_size <= PAGE_SIZE_LIMIT
              /\ params.page = IF req.page = {} THEN DEFAULT_PAGE
                               ELSE CHOOSE v \in req.page : TRUE
              /\ \/ req.page_size = {} /\ params.page_size = DEFAULT_PAGE_SIZE
                 \/ \E v \in req.page_size :
                       params.page_size = IF v > PAGE_SIZE_LIMIT
                                          THEN PAGE_SIZE_LIMIT ELSE v
        /\ ((\E v \in req.page : v < 1) \/ (\E v \in req.page_size : v < 1))
              => (resp.status >= 400 /\ resp.queries = <<>>)

\* ---- properties of the post handlers -----------------------------------
\* a step of update_post or delete_post
PostWriteStep == req.op = "pending" /\ req'.op \in {"update_post", "delete_post"}

\* the posts with the id of the request that user u wrote
OwnPost(u) == {x \in posts : x.id = req.id /\ x.author_id = u}

\* C21: a post is updated or deleted only by a request whose resolved
\* identity equals the post's author_id: an update_post or delete_post of a
\* user who is not the author is answered 404 and leaves the post, its tags
\* and every other post as they were; and a post that such a request changes
\* or removes is the post of the request, written by the resolved user.
C21_OnlyAuthorWritesPost ==
    [][PostWriteStep =>
        /\ \A u \in ctx'.user :
              (~raised' /\ ~Anonymous(ctx') /\ OwnPost(u) = {})
              => /\ resp'.status = 404
                 /\ UNCHANGED <<posts, tags>>
        /\ \A x \in posts \ posts' :
              x.id = req.id /\ ctx' = CtxUser({x.author_id})
        /\ UNCHANGED tags]_vars

\* C21 witness: bob's PUT of a new title to alice's post 1 was answered 404
\* and post 1 still has its title and tags.
C21_Witness ==
    /\ req.op = "update_post" /\ req.id = 1 /\ req.title = {"t2"}
    /\ ctx = CtxUser({2})
    /\ resp = NotFound("Post not found or you don't have permission to modify it")
    /\ [id |-> 1, title |-> "t1", author_id |-> 1, tags |-> {1}] \in posts

\* C22: GET /api/v1/posts requires authentication: the list of all posts is
\* returned only to a request with a resolved identity, and an anonymous
\* request receives 401.
C22_GetPostsNeedsIdentity ==
    req.op = "get_posts" =>
        /\ resp.status = 200 => (ctx.assigned /\ ~Anonymous(ctx))
        /\ (~raised /\ Anonymous(ctx)) => resp.status = 401

\* ---- properties of the pages of one collection -------------------------
\* the item lists of pages 1 .. n of queryset, one after the other
RECURSIVE PagesUpTo(_, _, _, _)
PagesUpTo(queryset, page_size, transform_func, n) ==
    IF n = 0 THEN <<>>
    ELSE PagesUpTo(queryset, page_size, transform_func, n - 1)
         \o paginate_queryset(queryset, PaginationParams(n, page_size),
                              transform_func).items

\* C28: for a collection that does not change and a fixed page_size, the
\* item lists of pages 1 .. total_pages, one after the other, are the whole
\* collection in source order (so every item is on exactly one page, none
\* skipped or repeated), and every page before the last holds exactly
\* page_size items.
C28_PagesPartitionCollection ==
    Paginated =>
        LET q == req.queryset
            total_pages == resp.value.page_info.total_pages
        IN /\ PagesUpTo(q, req.page_size, req.transform_func, total_pages)
                 = [i \in 1 .. Len(q) |-> Transformed(req.transform_func, q[i])]
           /\ \A p \in 1 .. total_pages - 1 :
                 Len(paginate_queryset(q, PaginationParams(p, req.page_size),
                                       req.transform_func).items) = req.page_size

\* C28 witness: seven rows in pages of three: the third page asked for is
\* the last one and holds the one row left.
C28_Witness ==
    /\ Paginated
    /\ Len(req.queryset) = 7 /\ req.page_size = 3 /\ req.page = 3
    /\ resp.value.page_info.total_pages = 3
    /\ Len(resp.value.items) = 1

\* ---- properties of PUT /api/v1/users/me --------------------------------
\* C29: PUT /api/v1/users/me is all-or-nothing as the users blueprint wires
\* it: either it returns the updated user data, the change is persisted and
\* USER_UPDATED is published, or it returns an error, the stored user
\* record is unchanged and no event was published.
C29_UpdateAllOrNothing ==
    [][(req.op = "pending" /\ req'.op = "update_current_user") =>
        \/ /\ resp'.status = 200
           /\ \E i \in ctx'.user :
                 /\ users' = (users \ ById(users, i)) \cup
                       {WithFields(u, req.username, req.email) : u \in ById(users, i)}
                 /\ published' = <<Event("USER_UPDATED", i)>>
        \/ /\ resp'.status >= 400
           /\ users' = users
           /\ published' = <<>>]_vars

\* ---- properties of the services and the event bus ----------------------
\* a step of a writing method of PostService or TagService
ServiceOps ==
    {"create_post", "update_post", "delete_post",
     "create_tag", "update_tag", "delete_tag"}
ServiceStep == req.op = "pending" /\ req'.op \in ServiceOps

\* C24: a failure raised by an event subscriber never fails the originating
\* operation: when a subscriber of the event a create, update or delete
\* published raises, the operation still completes, its store change is
\* kept, and its caller receives the normal result.
C24_SubscriberFailureContained ==
    [][(/\ ServiceStep
        /\ published' # <<>>
        /\ \E i \in DOMAIN subscribers[published'[1].type] :
              subscribers[published'[1].type][i].raises)
       => /\ ~raised'
          /\ resp' # NoResponse
          /\ req'.op \in {"create_post", "delete_post"} => posts' # posts
          /\ req'.op \in {"create_tag", "delete_tag"} => tags' # tags]_vars

\* C30: TagService.create_tag is idempotent on the tag name: a call with a
\* name that exists returns the existing tag, creates no tag and publishes
\* no event; a call with a new name creates one tag and publishes exactly
\* one TAG_CREATED event for it; so there is at most one tag per name and
\* one TAG_CREATED event per tag.
C30_CreateTagIdempotent ==
    [][req'.op = "create_tag" =>
        LET existing_tag == {t \in tags : t.name = req'.name} IN
        /\ existing_tag # {}
              => /\ tags' = tags
                 /\ published' = <<>>
                 /\ resp' = Returned(existing_tag)
        /\ existing_tag = {}
              => /\ \E t \in tags' \ tags :
                       /\ tags' = tags \cup {t}
                       /\ t.name = req'.name
                       /\ published' = <<Event("TAG_CREATED", t.id)>>
        /\ \A t1, t2 \in tags' : t1.name = t2.name => t1 = t2]_vars

\* ---- properties of the cache -------------------------------------------
\* a step of a method of the backend (the clock stands still in it)
CacheStep(op) == req'.op = op /\ now' = now

\* C25: an entry is visible to get exactly while it is unexpired: after
\* set(k, v, ttl) with ttl > 0 and no later set, delete or clear of k,
\* get(k) returns v at every time before set-time + ttl and None at every
\* time at or after it, whatever the sweep did in between; and the sweep
\* removes only entries whose expiry has passed and leaves every other
\* entry unchanged.
C25_VisibleWhileUnexpired ==
    [][/\ CacheStep("get") =>
             \A s \in lastSet[req'.key] : \A t \in s.ttl :
                 t > 0 => resp'.value = IF now < s.at + t THEN {s.value} ELSE {}
       /\ CacheStep("_clean_expired") =>
             \A k \in CacheKeys :
                 cache'[k] # cache[k] =>
                     /\ cache'[k] = {}
                     /\ \E item \in cache[k] : \E e \in item.expires_at : e <= now]_vars

\* C25 witness: a value set with a ttl was read back as None at its expiry
\* instant or later, and the other key of the cache still holds an
\* unexpired entry.
C25_Witness ==
    /\ req.op = "get" /\ resp = Returned({})
    /\ \E s \in lastSet[req.key] : \E t \in s.ttl : t > 0 /\ now >= s.at + t
    /\ \E k \in CacheKeys \ {req.key} :
          \E item \in cache[k] : \E e \in item.expires_at : now < e

\* ---- properties of requests handled concurrently -----------------------
\* C23: under any interleaving of concurrently processed requests, the
\* identity attached to a request is the one jwt_middleware computes from
\* that request's own path and Authorization header and the clock at the
\* time it ran, it is what the request's handler reads, and a run of the
\* middleware changes nothing but its own request: no other request and no
\* state shared between requests.
C23_IdentityOfOwnRequest ==
    [][\A i \in Tasks :
        /\ tasks'[i].pc \in {"screened", "handled"} =>
              \E t \in tasks'[i].at :
                  tasks'[i].ctx =
                      jwt_middleware(tasks'[i].path, tasks'[i].header, t).ctx
        /\ tasks'[i].pc = "handled" => tasks'[i].seen = {tasks'[i].ctx}
        /\ (tasks[i].pc = "arrived" /\ tasks'[i].pc # "arrived") =>
              /\ \A j \in Tasks \ {i} : tasks'[j] = tasks[j]
              /\ UNCHANGED <<users, nextId, posts, tags, held, published,
                             subscribers, cache, lastSet>>]_vars

\* C23 witness: request a was resolved to user 1; request b, with user 2's
\* token, went through the middleware later, after the token had expired,
\* and is anonymous; each handler read the identity of its own request.
C23_Witness ==
    /\ tasks["a"].pc = "handled" /\ tasks["b"].pc = "handled"
    /\ tasks["a"].seen = {CtxUser({1})}
    /\ tasks["b"].header = Bearer(create_access_token(2, 0))
    /\ tasks["b"].seen = {CtxUser({})}
    /\ \E t1 \in tasks["a"].at, t2 \in tasks["b"].at : t1 < t2

\* C26: under any interleaving of two register requests that carry the
\* same username or the same email, exactly one of them creates a user and
\* receives tokens and the other is answered with the 400 duplicate error;
\* and at no point do two users with the same username or email exist.
C26_OneOfTwoRegisters ==
    /\ \A u1, u2 \in users :
          (u1.username = u2.username \/ u1.email = u2.email) => u1 = u2
    /\ \A i, j \in Tasks :
          (/\ i # j
           /\ tasks[i].pc = "done" /\ tasks[j].pc = "done"
           /\ \/ tasks[i].username = tasks[j].username
              \/ tasks[i].email = tasks[j].email)
          => \/ /\ tasks[i].resp.status = 200
                /\ tasks[i].resp.access_token # {}
                /\ tasks[j].resp = DuplicateUser
             \/ /\ tasks[j].resp.status = 200
                /\ tasks[j].resp.access_token # {}
                /\ tasks[i].resp = DuplicateUser

\* C27: the count and the item window of one paginate_queryset call
\* describe the same state of the collection even when other requests
\* insert or delete items between the count query and the fetch query: in
\* every returned response the number of items equals
\* min(page_size, max(0, total_items - skip)) for the total_items reported
\* in its page_info.
C27_CountAndWindowAgree ==
    \A i \in Listers :
        tasks[i].pc = "done" =>
            \A r \in tasks[i].result :
                LET skip == (r.page_info.current_page - 1) * r.page_info.page_size
                    left == r.page_info.total_items - skip
                IN Len(r.items) = Min(r.page_info.page_size,
                                      IF left < 0 THEN 0 ELSE left)

====
